---- MODULE Spec2Model ----
(***************************************************************************)
(* PyGazeAnalyser: event detectors (pygazeanalyser/detectors.py) and trace  *)
(* repair functions (pygazeanalyser/traces.py) as state machines.           *)
(*                                                                          *)
(* Every function is a specification of its own (SpecBlink, SpecFix, ...):  *)
(* its Init draws the arguments of one call from bounded sets, its actions  *)
(* are the iterations of the function's loops, and pc = "done" is the       *)
(* return (pc = "failed": an exception left the function).                  *)
(*                                                                          *)
(* Arrays are sequences; the source's indices are 0-based, so element k of  *)
(* a Python array a is Py(a, k).  Arithmetic is exact (integers and         *)
(* rationals): floating-point rounding is not modelled.                     *)
(***************************************************************************)
EXTENDS Integers, Sequences, FiniteSets, TLC

VARIABLES
    pc,        \* control position of the running call
    arg,       \* the call's keyword arguments (a record)
    x, y,      \* detectors: position arrays
    time,      \* detectors: timestamp array
    i,         \* detectors: loop counter of the for loops
    Sblk, Eblk,            \* blink_detection: returned lists
    si, fixstart,          \* fixation_detection: anchor index, in-fixation flag
    Sfix, Efix,            \* fixation_detection: returned lists
    vel, acc,              \* saccade_detection: velocity, acceleration arrays
    t0i,                   \* saccade_detection: scan cursor
    Ssac, Esac,            \* saccade_detection: returned lists
    data0,                 \* replace_missings: the array passed as data
    data,                  \* replace_missings: the local (returned) array
    passes,                \* replace_missings: iterations of the while loop
    signal0,               \* traces: the caller's array as it was at the call
    signal,                \* traces: the caller's array (written in place)
    imStarts, imEnds,      \* interpolate_missing: its lists starts and ends
    smoothed,              \* smooth: the array it returns
    ifrom,                 \* interpolate_blink: cursor of the blink search
    c,                     \* EK_microsaccade_detection: index of the scan
    is_moving,             \* EK_microsaccade_detection: a run is open
    moving                 \* EK_microsaccade_detection: the scanned mask

streamVars == <<x, y, time>>
blinkVars  == <<Sblk, Eblk>>
fixVars    == <<si, fixstart, Sfix, Efix>>
sacVars    == <<vel, acc, t0i, Ssac, Esac>>
detVars    == <<x, y, time, i, Sblk, Eblk, si, fixstart, Sfix, Efix,
               vel, acc, t0i, Ssac, Esac>>
rmVars     == <<data0, data, passes>>
moreVars   == <<smoothed, ifrom, c, is_moving, moving>>
trVars     == <<signal0, signal, imStarts, imEnds, moreVars>>
vars == <<pc, arg, x, y, time, i, Sblk, Eblk, si, fixstart, Sfix, Efix,
          vel, acc, t0i, Ssac, Esac, data0, data, passes,
          signal0, signal, imStarts, imEnds,
          smoothed, ifrom, c, is_moving, moving>>

(***************************************************************************)
(* Bounds of the model.                                                     *)
(***************************************************************************)
MaxLenBlink == 5      \* longest stream given to blink_detection
MaxRun == 3           \* longest missing run of the single-run streams
MaxTail == 2          \* most valid samples after that run
RunStart == 10        \* index of the first missing sample of that run
MaxLenFix == 5        \* longest stream given to fixation_detection
MaxLenSac == 7        \* longest stream given to saccade_detection
MaxJump == 3          \* largest index j of the sample before the single jump
MaxAfter == 4         \* most samples after sample j of the single-jump streams
MaxLenData == 4       \* longest array given to replace_missings
MaxLenSignal == 6     \* longest signal given to interpolate_missing

(***************************************************************************)
(* Python / NumPy helpers.                                                  *)
(***************************************************************************)
\* a[k] of a Python sequence: 0-based, a negative k counts from the end.
Py(a, k) == IF k < 0 THEN a[Len(a) + k + 1] ELSE a[k + 1]

\* numpy.diff of an integer array.
Diff(a) == [k \in 1..(Len(a) - 1) |-> a[k + 1] - a[k]]

\* range(n) as a sequence: 0, 1, ..., n-1.
Range(n) == [k \in 1..n |-> k - 1]

\* numpy.where(a == v)[0]: the 0-based indices of the elements equal to v.
WhereEq(a, v) == SelectSeq(Range(Len(a)), LAMBDA k: a[k + 1] = v)

\* Timestamp arrays of length n starting at t0 with increments from D.
RECURSIVE Cumul(_, _)
Cumul(t0, d) == IF Len(d) = 0 THEN <<t0>>
                ELSE <<t0>> \o Cumul(t0 + Head(d), Tail(d))
Times(n, D) == IF n = 0 THEN {<<>>}
               ELSE {Cumul(0, d) : d \in [1..(n - 1) -> D]}

(***************************************************************************)
(* Floating-point values as extended rationals <<n, d>> in lowest terms     *)
(* with d >= 0: <<1, 0>> is inf, <<-1, 0>> is -inf and <<0, 0>> is nan.     *)
(***************************************************************************)
Abs(a) == IF a < 0 THEN -a ELSE a
Sign(a) == IF a < 0 THEN -1 ELSE IF a > 0 THEN 1 ELSE 0
Max(a, b) == IF a >= b THEN a ELSE b
Min(a, b) == IF a <= b THEN a ELSE b
SetMin(S) == CHOOSE m \in S : \A k \in S : m <= k

RECURSIVE GCD(_, _)
GCD(a, b) == IF b = 0 THEN a ELSE GCD(b, a % b)

\* The float n / d.
RNorm(n, d) ==
    IF d = 0 THEN <<Sign(n), 0>>
    ELSE LET g == GCD(Abs(n), Abs(d))
         IN  <<(Sign(d) * n) \div g, Abs(d) \div g>>

R(k) == <<k, 1>>
NaN == <<0, 0>>
IsNaN(a) == a = NaN
IsFinite(a) == a[2] # 0

\* a - b, a < b, a > b and a == b of floats.
RSub(a, b) ==
    IF IsNaN(a) \/ IsNaN(b) THEN NaN
    ELSE IF ~IsFinite(a) /\ ~IsFinite(b) THEN (IF a = b THEN NaN ELSE a)
    ELSE IF ~IsFinite(a) THEN a
    ELSE IF ~IsFinite(b) THEN <<-b[1], 0>>
    ELSE RNorm(a[1] * b[2] - b[1] * a[2], a[2] * b[2])
RLt(a, b) ==
    /\ ~IsNaN(a) /\ ~IsNaN(b)
    /\ IF ~IsFinite(a) /\ ~IsFinite(b) THEN a[1] < b[1]
       ELSE a[1] * b[2] < b[1] * a[2]
RGt(a, b) == RLt(b, a)
REq(a, b) == ~IsNaN(a) /\ ~IsNaN(b) /\ a = b

(***************************************************************************)
(* blink_detection(x, y, time, missing, minlen)                            *)
(***************************************************************************)
\* The missing mask: 1 where x and y both equal the sentinel.
Miss(xs, ys, m) ==
    [k \in 1..Len(xs) |-> IF xs[k] = m /\ ys[k] = m THEN 1 ELSE 0]

\* Indices of the rising edges of the mask (+1 to counteract the shift).
BlinkStartsMutNoShift(miss) == WhereEq(Diff(miss), 1)
BlinkStarts(miss) ==
    LET w == WhereEq(Diff(miss), 1) IN [k \in 1..Len(w) |-> w[k] + 1]

\* Indices of the falling edges of the mask.
BlinkEnds(miss) ==
    LET w == WhereEq(Diff(miss), -1) IN [k \in 1..Len(w) |-> w[k] + 1]

\* The ending index paired with the n-th start (n 0-based).
BlinkEndIndex(n, ends) ==
    IF n < Len(ends) THEN Py(ends, n)
    ELSE IF Len(ends) > 0 THEN Py(ends, -1)
    ELSE -1

\* The test that lets a run into the returned lists.
BlinkKeepMutAlways(s, e, minlen) == TRUE
BlinkKeep(s, e, minlen) == e - s >= minlen

\* The record appended to Eblk for the run from index s to index e.
BlinkRecord(s, e) == <<Py(time, s), Py(time, e), Py(time, e) - Py(time, s)>>

\* The list Sblk after the iteration for the run from index s to index e:
\* "Sblk.append([time[s]])" stands inside "if e-s >= minlen".
SblkAfterMutUnfiltered(S, s, e, minlen) == Append(S, <<Py(time, s)>>)
SblkAfter(S, s, e, minlen) ==
    IF BlinkKeep(s, e, minlen) THEN Append(S, <<Py(time, s)>>) ELSE S

starts == BlinkStarts(Miss(x, y, arg.missing))
ends   == BlinkEnds(Miss(x, y, arg.missing))

\* One iteration of "for i in range(len(starts))".
BlinkIter ==
    /\ pc = "blink"
    /\ i < Len(starts)
    /\ LET s == Py(starts, i)
           e == BlinkEndIndex(i, ends)
       IN  /\ Sblk' = SblkAfter(Sblk, s, e, arg.minlen)
           /\ Eblk' = IF BlinkKeep(s, e, arg.minlen)
                      THEN Append(Eblk, BlinkRecord(s, e)) ELSE Eblk
    /\ i' = i + 1
    /\ UNCHANGED <<pc, arg, streamVars, fixVars, sacVars, rmVars, trVars>>

\* "return Sblk, Eblk".
BlinkReturn ==
    /\ pc = "blink"
    /\ i >= Len(starts)
    /\ pc' = "done"
    /\ UNCHANGED <<arg, streamVars, i, blinkVars, fixVars, sacVars, rmVars, trVars>>

\* Samples of the blink streams: missing, only x missing, valid.
BlinkXY == {<<0, 0>>, <<0, 1>>, <<1, 1>>}
BlinkDT == {0, 2}
BlinkMinLen == 0..3

Idle ==
    /\ Sblk = <<>> /\ Eblk = <<>>
    /\ si = 0 /\ fixstart = FALSE /\ Sfix = <<>> /\ Efix = <<>>
    /\ t0i = 0 /\ Ssac = <<>> /\ Esac = <<>>

\* The variables of smooth, interpolate_blink and EK_microsaccade_detection
\* while another function is called.
NoMore ==
    /\ smoothed = <<>> /\ ifrom = 0
    /\ c = 0 /\ is_moving = FALSE /\ moving = <<>>

\* No trace: the call is not one of traces.py.
NoTrace ==
    /\ signal0 = <<>> /\ signal = <<>> /\ imStarts = <<>> /\ imEnds = <<>>
    /\ NoMore

\* No velocity profile: the call is not saccade_detection; no data array:
\* it is not replace_missings.
NoVel ==
    /\ vel = <<>> /\ acc = <<>>
    /\ data0 = <<>> /\ data = <<>> /\ passes = 0
    /\ NoTrace

InitBlink ==
    /\ pc = "blink"
    /\ \E n \in 0..MaxLenBlink :
         /\ \E p \in [1..n -> BlinkXY] :
              /\ x = [k \in 1..n |-> p[k][1]]
              /\ y = [k \in 1..n |-> p[k][2]]
         /\ time \in Times(n, BlinkDT)
    /\ arg \in [missing : {0}, minlen : BlinkMinLen]
    /\ i = 0
    /\ Idle /\ NoVel

NextBlink == BlinkIter \/ BlinkReturn

SpecBlink == InitBlink /\ [][NextBlink]_vars

\* Streams with time[k] = k that are valid everywhere except one run of L
\* missing samples at [RunStart, RunStart+L), with at least one valid sample
\* after it.  b and a are the valid samples next to the run.
BlinkValid == {<<0, 1>>, <<1, 0>>, <<1, 1>>}
RunStream(L, tail, b, a) ==
    [k \in 1..(RunStart + L + tail) |->
        IF k - 1 = RunStart - 1 THEN b
        ELSE IF k - 1 = RunStart + L THEN a
        ELSE IF k - 1 >= RunStart /\ k - 1 < RunStart + L THEN <<0, 0>>
        ELSE <<1, 1>>]

InitBlinkRun ==
    /\ pc = "blink"
    /\ \E L \in 1..MaxRun, tail \in 1..MaxTail, b \in BlinkValid, a \in BlinkValid :
         LET p == RunStream(L, tail, b, a)
         IN  /\ x = [k \in 1..Len(p) |-> p[k][1]]
             /\ y = [k \in 1..Len(p) |-> p[k][2]]
             /\ time = Range(Len(p))
    /\ arg \in [missing : {0}, minlen : 0..(MaxRun + 1)]
    /\ i = 0
    /\ Idle /\ NoVel

SpecBlinkRun == InitBlinkRun /\ [][NextBlink]_vars

(***************************************************************************)
(* Claims about blink_detection.                                           *)
(***************************************************************************)
StrictlyIncreasing(t) == \A k \in 1..(Len(t) - 1) : t[k] < t[k + 1]
HasRepeatedTime == \E k \in 1..(Len(time) - 1) : time[k] = time[k + 1]
MissAt(k) == Py(Miss(x, y, arg.missing), k) = 1

\* C3 as stated: every blink end-record [start, end, duration] has
\* duration = end - start, duration >= minlen and end >= start, also when
\* timestamps repeat.  (Violated: minlen is compared with a number of samples,
\* the duration is a difference of timestamps.)
C3_Original ==
    \A k \in 1..Len(Eblk) :
        /\ Eblk[k][3] = Eblk[k][2] - Eblk[k][1]
        /\ Eblk[k][3] >= arg.minlen
        /\ Eblk[k][2] >= Eblk[k][1]

\* C3 amended: every blink end-record is [time[s], time[e], time[e] - time[s]]
\* for sample indices s < e with e - s >= minlen, so duration = end - start and
\* end >= start; duration >= minlen holds when the timestamps are strictly
\* increasing integers.
C3_BlinkRecords ==
    \A k \in 1..Len(Eblk) :
        /\ Eblk[k][3] = Eblk[k][2] - Eblk[k][1]
        /\ Eblk[k][2] >= Eblk[k][1]
        /\ \E s \in 0..(Len(time) - 1), e \in 0..(Len(time) - 1) :
              /\ s < e
              /\ e - s >= arg.minlen
              /\ Eblk[k] = <<Py(time, s), Py(time, e), Py(time, e) - Py(time, s)>>
        /\ StrictlyIncreasing(time) => Eblk[k][3] >= arg.minlen

\* C3 witness: a call on a stream with a repeated timestamp has returned an
\* end-record under a positive minlen.
C3_Witness ==
    /\ pc = "done"
    /\ Len(Eblk) >= 1
    /\ arg.minlen >= 1
    /\ HasRepeatedTime

\* Length of the missing run of a single-run stream.
RunLen == Cardinality({k \in 0..(Len(x) - 1) : MissAt(k)})

\* C4 as stated: the single run of L missing samples at [RunStart, RunStart+L)
\* gives exactly the end-record [RunStart, RunStart+L-1, L-1] when L >= minlen
\* and no end-record when L < minlen.  (Violated: the end is the first valid
\* sample after the run.)
C4_Original ==
    pc = "done" =>
        IF RunLen >= arg.minlen
        THEN Eblk = << <<RunStart, RunStart + RunLen - 1, RunLen - 1>> >>
        ELSE Eblk = <<>>

\* C4 amended: the run gives exactly the end-record [RunStart, RunStart+L, L]
\* when L >= minlen (the end is the timestamp of the first valid sample after
\* the run, the duration is L) and no end-record when L < minlen.
C4_SingleRun ==
    pc = "done" =>
        IF RunLen >= arg.minlen
        THEN /\ Eblk = << <<RunStart, RunStart + RunLen, RunLen>> >>
             /\ Sblk = << <<RunStart>> >>
        ELSE Eblk = <<>> /\ Sblk = <<>>

\* C4 witness: a run of exactly minlen >= 2 samples was returned.
C4_Witness ==
    /\ pc = "done"
    /\ RunLen = arg.minlen
    /\ RunLen >= 2
    /\ Len(Eblk) = 1

\* Is [s, e) a maximal run of missing samples that begins after index 0 and
\* ends before the last sample (e is the first valid sample after it)?
InnerRun(s, e) ==
    /\ 1 <= s /\ s < e /\ e <= Len(x) - 1
    /\ ~MissAt(s - 1)
    /\ \A k \in s..(e - 1) : MissAt(k)
    /\ ~MissAt(e)

\* C7: every maximal missing run that begins after index 0, ends before the
\* last sample and has at least minlen samples gives exactly one end-record
\* [time of its first missing sample, time of the first valid sample after
\* it, ...], whatever other runs the stream has (stated for strictly
\* increasing timestamps, where records of distinct runs differ).
C7_EveryInnerRun ==
    (pc = "done" /\ StrictlyIncreasing(time)) =>
        \A s \in 0..(Len(x) - 1), e \in 0..(Len(x) - 1) :
            (InnerRun(s, e) /\ e - s >= arg.minlen) =>
                Cardinality({k \in 1..Len(Eblk) :
                    /\ Eblk[k][1] = Py(time, s)
                    /\ Eblk[k][2] = Py(time, e)}) = 1

(***************************************************************************)
(* fixation_detection(x, y, time, missing, maxdist, mindur,                *)
(*                    handle_missings=None)                                *)
(* The call is modelled with handle_missings left at its default, so x and *)
(* y are scanned as given.                                                 *)
(***************************************************************************)
\* Squared Euclidean distance between samples a and b (0-based).
Dist2(a, b) ==
    (Py(x, a) - Py(x, b)) * (Py(x, a) - Py(x, b))
    + (Py(y, a) - Py(y, b)) * (Py(y, a) - Py(y, b))

\* "dist <= maxdist" for the distance between samples a and b.
DistLe(a, b, maxdist) == maxdist >= 0 /\ Dist2(a, b) <= maxdist * maxdist

\* The test that stores a closed fixation.
FixKeepMutOffByOne(dur, mindur) == dur >= mindur - 1
FixKeep(dur, mindur) == dur >= mindur

\* The sample whose timestamp ends the fixation closed at sample n.
FixEndIndexMutCloser(n) == n
FixEndIndexMutLate(n) == Min(n + 2, Len(time) - 1)
FixEndIndex(n) == n - 1

\* "Sfix.pop(-1)": the start of a fixation that was too short is deleted.
SfixPopMutKeep(S) == S
SfixPop(S) == SubSeq(S, 1, Len(S) - 1)

\* dist <= maxdist and not fixstart: start a new fixation.
FixStart ==
    /\ pc = "fix"
    /\ i < Len(x)
    /\ DistLe(si, i, arg.maxdist) /\ ~fixstart
    /\ si' = 0 + i
    /\ fixstart' = TRUE
    /\ Sfix' = Append(Sfix, <<Py(time, i)>>)
    /\ i' = i + 1
    /\ UNCHANGED <<pc, arg, streamVars, Efix, blinkVars, sacVars, rmVars, trVars>>

\* dist > maxdist and fixstart: end the current fixation.
FixEnd ==
    /\ pc = "fix"
    /\ i < Len(x)
    /\ ~DistLe(si, i, arg.maxdist) /\ fixstart
    /\ fixstart' = FALSE
    /\ LET st == Py(Sfix, -1)[1]
           et == Py(time, FixEndIndex(i))
       IN  IF FixKeep(et - st, arg.mindur)
           THEN /\ Efix' = Append(Efix, <<st, et, et - st, Py(x, si), Py(y, si)>>)
                /\ Sfix' = Sfix
           ELSE /\ Sfix' = SfixPop(Sfix)
                /\ Efix' = Efix
    /\ si' = 0 + i
    /\ i' = i + 1
    /\ UNCHANGED <<pc, arg, streamVars, blinkVars, sacVars, rmVars, trVars>>

\* elif not fixstart: the anchor slides one sample forward.
FixSlide ==
    /\ pc = "fix"
    /\ i < Len(x)
    /\ ~DistLe(si, i, arg.maxdist) /\ ~fixstart
    /\ si' = si + 1
    /\ i' = i + 1
    /\ UNCHANGED <<pc, arg, streamVars, fixstart, Sfix, Efix, blinkVars, sacVars, rmVars, trVars>>

\* No branch taken: the sample stays within maxdist of the anchor.
FixStay ==
    /\ pc = "fix"
    /\ i < Len(x)
    /\ DistLe(si, i, arg.maxdist) /\ fixstart
    /\ i' = i + 1
    /\ UNCHANGED <<pc, arg, streamVars, fixVars, blinkVars, sacVars, rmVars, trVars>>

\* "return Sfix, Efix".
FixReturn ==
    /\ pc = "fix"
    /\ i >= Len(x)
    /\ pc' = "done"
    /\ UNCHANGED <<arg, streamVars, i, fixVars, blinkVars, sacVars, rmVars, trVars>>

FixXY == {<<0, 0>>, <<1, 0>>, <<0, 2>>}
FixDT == {0, 1}
FixMaxDist == {0, 1, 2}
FixMinDur == {0, 1, 2}

InitFix ==
    /\ pc = "fix"
    /\ \E n \in 0..MaxLenFix :
         /\ \E p \in [1..n -> FixXY] :
              /\ x = [k \in 1..n |-> p[k][1]]
              /\ y = [k \in 1..n |-> p[k][2]]
         /\ time \in Times(n, FixDT)
    /\ arg \in [maxdist : FixMaxDist, mindur : FixMinDur]
    /\ i = 1
    /\ Idle /\ NoVel

NextFix == FixStart \/ FixEnd \/ FixSlide \/ FixStay \/ FixReturn

SpecFix == InitFix /\ [][NextFix]_vars

(***************************************************************************)
(* Claims about fixation_detection.                                        *)
(***************************************************************************)
\* C1: every fixation end-record [start, end, duration, x, y] has
\* duration = end - start, duration >= mindur and end >= start, and a
\* candidate shorter than mindur is in neither list: every entry of Sfix,
\* except the start of a fixation that is still open, is the start of the
\* end-record at the same position of Efix.
C1_FixRecords ==
    /\ \A k \in 1..Len(Efix) :
          /\ Efix[k][3] = Efix[k][2] - Efix[k][1]
          /\ Efix[k][3] >= arg.mindur
          /\ Efix[k][2] >= Efix[k][1]
    /\ \A k \in 1..Len(Sfix) :
          \/ k <= Len(Efix) /\ Efix[k][1] = Sfix[k][1]
          \/ fixstart /\ k = Len(Sfix) /\ k = Len(Efix) + 1

\* C1 witness: the call has returned after storing one fixation and
\* discarding another candidate that was too short.
C1_Witness ==
    /\ pc = "done"
    /\ Len(Efix) >= 1
    /\ arg.mindur >= 1
    /\ \E a \in 1..(Len(x) - 2) :
          /\ DistLe(a - 1, a, arg.maxdist)
          /\ ~DistLe(a, a + 1, arg.maxdist)
          /\ \A k \in 1..Len(Efix) : Efix[k][1] # Py(time, a)

\* Is the stream one position repeated?
ConstantStream ==
    \A k \in 1..Len(x) : x[k] = x[1] /\ y[k] = y[1]

\* C5: a stream of N >= 2 samples at one position (x0, y0) whose timestamps
\* span D >= mindur gives exactly one fixation end-record, with position
\* (x0, y0).
C5_ConstantStream ==
    (/\ pc = "done"
     /\ Len(x) >= 2
     /\ ConstantStream
     /\ Py(time, -1) - Py(time, 0) >= arg.mindur)
    => /\ Len(Efix) = 1
       /\ Efix[1][4] = x[1]
       /\ Efix[1][5] = y[1]

(***************************************************************************)
(* saccade_detection(x, y, time, missing, minlen, maxvel, maxacc,          *)
(*                   handle_missings=None)                                 *)
(***************************************************************************)
\* numpy.hypot on the integer differences of the modelled positions, whose
\* distances are whole numbers.
Hypot(a, b) == CHOOSE r \in 0..(Abs(a) + Abs(b)) : r * r = a * a + b * b

\* intdist[k]: the distance between samples k and k+1 of the stream.
IntDist(xs, ys, k) == Hypot(Py(xs, k + 1) - Py(xs, k), Py(ys, k + 1) - Py(ys, k))

\* vel = intdist / (numpy.diff(time) / 1000.0).
VelOf(xs, ys, ts) ==
    [k \in 1..(Len(ts) - 1) |->
        RNorm(1000 * IntDist(xs, ys, k - 1), ts[k + 1] - ts[k])]

\* acc = numpy.diff(vel).
AccOf(v) == [k \in 1..(Len(v) - 1) |-> RSub(v[k + 1], v[k])]

Vel(k) == Py(vel, k)
Acc(k) == Py(acc, k)

\* Length of the slices vel[1+t:] and acc[t:].
SliceLen(t) == Max(0, Len(time) - 2 - t)

\* numpy.where((vel[1+t:] > maxvel) | (acc[t:] > maxacc))[0], as a set.
SacStartsMutVelOnly(t) ==
    {m \in 0..(SliceLen(t) - 1) : RGt(Vel(1 + t + m), R(arg.maxvel)) /\ FALSE}
SacStarts(t) ==
    {m \in 0..(SliceLen(t) - 1) :
        RGt(Vel(1 + t + m), R(arg.maxvel)) \/ RGt(Acc(t + m), R(arg.maxacc))}

\* numpy.where((vel[1+t:] < maxvel) & (acc[t:] < maxacc))[0], as a set.
SacEnds(t) ==
    {m \in 0..(SliceLen(t) - 1) :
        RLt(Vel(1 + t + m), R(arg.maxvel)) /\ RLt(Acc(t + m), R(arg.maxacc))}

\* Index of the starting sample found from cursor t.
SacT1i(t) ==
    LET t1 == t + SetMin(SacStarts(t)) + 1
    IN  IF t1 >= Len(time) - 1 THEN Len(time) - 2 ELSE t1

\* Index of the ending sample found from the start t1.
SacT2iMutBack(t1) == t1 - 1
SacT2iMutNoSkip(t1) ==
    LET t2 == SetMin(SacEnds(t1)) + t1
    IN  IF t2 >= Len(time) THEN Len(time) - 1 ELSE t2
SacT2i(t1) ==
    LET t2 == SetMin(SacEnds(t1)) + 1 + t1 + 2
    IN  IF t2 >= Len(time) THEN Len(time) - 1 ELSE t2

\* The test that stores a saccade.
SacKeepMutOffByOne(dur, minlen) == dur >= minlen - 1
SacKeep(dur, minlen) == dur >= minlen

\* The record appended to Esac.
SacRecordMutEndPos(t1i, t2i) ==
    <<Py(time, t1i), Py(time, t2i), Py(time, t2i) - Py(time, t1i),
      Py(x, t1i), Py(y, t1i), Py(x, t2i - 1), Py(y, t2i - 1)>>
SacRecord(t1i, t2i) ==
    <<Py(time, t1i), Py(time, t2i), Py(time, t2i) - Py(time, t1i),
      Py(x, t1i), Py(y, t1i), Py(x, t2i), Py(y, t2i)>>

\* An iteration that finds no saccade start: stop, and return.
SacNoStart ==
    /\ pc = "sac"
    /\ SacStarts(t0i) = {}
    /\ pc' = "done"
    /\ UNCHANGED <<arg, streamVars, i, blinkVars, fixVars, sacVars, rmVars, trVars>>

\* An iteration that finds a start but no end: the start stays in Ssac,
\* stop, and return.
SacNoEnd ==
    /\ pc = "sac"
    /\ SacStarts(t0i) # {}
    /\ SacEnds(SacT1i(t0i)) = {}
    /\ Ssac' = Append(Ssac, <<Py(time, SacT1i(t0i))>>)
    /\ pc' = "done"
    /\ UNCHANGED <<arg, streamVars, i, blinkVars, fixVars, vel, acc, t0i, Esac, rmVars, trVars>>

\* An iteration that finds a start and an end.
SacFound ==
    /\ pc = "sac"
    /\ SacStarts(t0i) # {}
    /\ SacEnds(SacT1i(t0i)) # {}
    /\ LET t1i == SacT1i(t0i)
           t2i == SacT2i(t1i)
           dur == Py(time, t2i) - Py(time, t1i)
       IN  /\ IF SacKeep(dur, arg.minlen)
              THEN /\ Ssac' = Append(Ssac, <<Py(time, t1i)>>)
                   /\ Esac' = Append(Esac, SacRecord(t1i, t2i))
              ELSE UNCHANGED <<Ssac, Esac>>
           /\ t0i' = 0 + t2i
    /\ UNCHANGED <<pc, arg, streamVars, i, blinkVars, fixVars, vel, acc, rmVars, trVars>>

\* Positions whose distances are whole numbers; timestamps in milliseconds.
SacXY == {<<0, 0>>, <<3, 4>>}
SacDT == {1, 2}
SacMaxVel == {1000, 3000}
SacMaxAcc == {1000, 3000}
SacMinLen == {0, 5}

InitSac ==
    /\ pc = "sac"
    /\ \E n \in 0..MaxLenSac :
         /\ \E p \in [1..n -> SacXY] :
              /\ x = [k \in 1..n |-> p[k][1]]
              /\ y = [k \in 1..n |-> p[k][2]]
         /\ time \in Times(n, SacDT)
    /\ vel = VelOf(x, y, time)
    /\ acc = AccOf(vel)
    /\ data0 = <<>> /\ data = <<>> /\ passes = 0
    /\ NoTrace
    /\ arg \in [maxvel : SacMaxVel, maxacc : SacMaxAcc, minlen : SacMinLen]
    /\ i = 0
    /\ Idle

NextSac == SacNoStart \/ SacNoEnd \/ SacFound

SpecSac == InitSac /\ [][NextSac]_vars

\* Streams with a constant sampling interval dt whose position is p up to
\* sample j and q from sample j+1 on, with aft >= 3 samples after sample j.
InitSacJump ==
    /\ pc = "sac"
    /\ \E j \in 0..MaxJump, aft \in 3..MaxAfter, dt \in SacDT, p \in SacXY :
         LET q == CHOOSE q \in SacXY : q # p
             n == j + 1 + aft
         IN  /\ x = [k \in 1..n |-> IF k - 1 <= j THEN p[1] ELSE q[1]]
             /\ y = [k \in 1..n |-> IF k - 1 <= j THEN p[2] ELSE q[2]]
             /\ time = [k \in 1..n |-> (k - 1) * dt]
    /\ vel = VelOf(x, y, time)
    /\ acc = AccOf(vel)
    /\ data0 = <<>> /\ data = <<>> /\ passes = 0
    /\ NoTrace
    /\ arg \in [maxvel : {0, 1000}, maxacc : SacMaxAcc, minlen : {0, 3}]
    /\ i = 0
    /\ Idle

SpecSacJump == InitSacJump /\ [][NextSac]_vars

(***************************************************************************)
(* Claims about saccade_detection.                                         *)
(***************************************************************************)
\* C2: for strictly increasing timestamps every saccade end-record
\* [t1, t2, dur, sx, sy, ex, ey] has dur = t2 - t1, dur >= minlen and
\* t2 >= t1, and (sx, sy), (ex, ey) are the positions of the samples whose
\* timestamps are t1 and t2.
C2_SacRecords ==
    StrictlyIncreasing(time) =>
        \A k \in 1..Len(Esac) :
            /\ Esac[k][3] = Esac[k][2] - Esac[k][1]
            /\ Esac[k][3] >= arg.minlen
            /\ Esac[k][2] >= Esac[k][1]
            /\ \E a \in 0..(Len(time) - 1), b \in 0..(Len(time) - 1) :
                  /\ Py(time, a) = Esac[k][1]
                  /\ Py(time, b) = Esac[k][2]
                  /\ Esac[k][4] = Py(x, a) /\ Esac[k][5] = Py(y, a)
                  /\ Esac[k][6] = Py(x, b) /\ Esac[k][7] = Py(y, b)

\* C2 witness: the call has returned a saccade that passed a positive minlen
\* and whose end position differs from the position one sample earlier.
C2_Witness ==
    /\ pc = "done"
    /\ arg.minlen > 0
    /\ \E k \in 1..Len(Esac), b \in 1..(Len(time) - 1) :
          /\ Py(time, b) = Esac[k][2]
          /\ Py(x, b - 1) # Esac[k][6]

\* The sample before the single jump of a single-jump stream.
JumpIndex == CHOOSE j \in 0..(Len(x) - 2) : Py(x, j) # Py(x, j + 1)

\* Does Ssac hold a start whose timestamp is time[j] or time[j+1]?
StartNear(j) ==
    \E k \in 1..Len(Ssac) :
        Ssac[k][1] = Py(time, j) \/ Ssac[k][1] = Py(time, j + 1)

\* C6: a single jump between samples j and j+1 with velocity above maxvel,
\* at least three samples after j and a sampling interval that meets minlen,
\* leaves a saccade start at time[j] or time[j+1], for every j including
\* j = 0 (stated for the positive velocity thresholds).
C6_JumpGivesStart ==
    (pc = "done" /\ arg.maxvel > 0 /\ RGt(Vel(JumpIndex), R(arg.maxvel)))
        => StartNear(JumpIndex)

\* C6 for the jumps the scan can see (j >= 1): holds.
C6_JumpAfterFirstSample ==
    (pc = "done" /\ RGt(Vel(JumpIndex), R(arg.maxvel)) /\ JumpIndex >= 1)
        => StartNear(JumpIndex)

(***************************************************************************)
(* replace_missings(data, missing, interpolate) and                        *)
(* interpolate_missings(data, missing)                                     *)
(***************************************************************************)
Inf == <<1, 0>>

\* "if data[0] == missing: data[0] = np.nan".
RmFirstMutKeep(d, m) == d
RmFirstMutAlways(d, m) == [d EXCEPT ![1] = NaN]
RmFirst(d, m) == IF REq(d[1], m) THEN [d EXCEPT ![1] = NaN] ELSE d

\* numpy.where(data == missing)[0], as a set of 0-based indices.
RmIdx(d, m) == {k \in 0..(Len(d) - 1) : REq(Py(d, k), m)}

\* "data[idx] = data[idx-1]": the right-hand side is read before any element
\* is written.
CarryForward(d, m) ==
    [k \in 1..Len(d) |-> IF (k - 1) \in RmIdx(d, m) THEN Py(d, k - 2) ELSE d[k]]

\* The value at index t of the line through (i0, v0) and (i1, v1).
Lerp(i0, v0, i1, v1, t) ==
    RNorm(v0[1] * v1[2] * (i1 - i0) + (v1[1] * v0[2] - v0[1] * v1[2]) * (t - i0),
          v0[2] * v1[2] * (i1 - i0))

\* interp1d(knots, d[knots], bounds_error=False)(t) for kind 'linear': nan
\* outside the range of the knots.
Interp1dLinear(d, knots, t) ==
    IF t \in knots THEN Py(d, t)
    ELSE IF \A k \in knots : k > t THEN NaN
    ELSE IF \A k \in knots : k < t THEN NaN
    ELSE LET lo == CHOOSE k \in knots : k < t /\ \A j \in knots : j < t => j <= k
             hi == CHOOSE k \in knots : k > t /\ \A j \in knots : j > t => j >= k
         IN  Lerp(lo, Py(d, lo), hi, Py(d, hi), t)

\* The knots of interpolate_missings: the finite samples that are not the
\* sentinel.
FiniteIdx(d, m) ==
    {k \in 0..(Len(d) - 1) : IsFinite(Py(d, k)) /\ ~REq(Py(d, k), m)}

\* interpolate_missings(data, missing), given that interp1d accepts the knots.
InterpolateMissingsMutKeepFinite(d, m) ==
    [k \in 1..Len(d) |->
        IF REq(d[k], m) THEN Interp1dLinear(d, FiniteIdx(d, m), k - 1) ELSE d[k]]
InterpolateMissings(d, m) ==
    [k \in 1..Len(d) |->
        IF IsFinite(d[k]) /\ ~REq(d[k], m) THEN d[k]
        ELSE Interp1dLinear(d, FiniteIdx(d, m), k - 1)]

\* replace_missings, interpolate=False, up to the while loop:
\* "data = np.array(data, dtype=float)" and the test of data[0].
RmStart ==
    /\ pc = "rm"
    /\ ~arg.interpolate
    /\ Len(data0) > 0
    /\ data' = RmFirst(data0, arg.missing)
    /\ pc' = "rm_loop"
    /\ UNCHANGED <<arg, detVars, data0, passes, trVars>>

\* data[0] of an empty array: IndexError.
RmStartFail ==
    /\ pc = "rm"
    /\ ~arg.interpolate
    /\ Len(data0) = 0
    /\ pc' = "failed"
    /\ UNCHANGED <<arg, detVars, rmVars, trVars>>

\* One iteration of "while True" that finds missing samples.
RmPass ==
    /\ pc = "rm_loop"
    /\ RmIdx(data, arg.missing) # {}
    /\ data' = CarryForward(data, arg.missing)
    /\ passes' = passes + 1
    /\ UNCHANGED <<pc, arg, detVars, data0, trVars>>

\* The iteration that finds none: break, "return data".
RmReturn ==
    /\ pc = "rm_loop"
    /\ RmIdx(data, arg.missing) = {}
    /\ pc' = "done"
    /\ UNCHANGED <<arg, detVars, rmVars, trVars>>

\* replace_missings, interpolate=True: "return interpolate_missings(...)".
RmInterpolate ==
    /\ pc = "rm"
    /\ arg.interpolate
    /\ Cardinality(FiniteIdx(data0, arg.missing)) >= 1
    /\ data' = InterpolateMissings(data0, arg.missing)
    /\ pc' = "done"
    /\ UNCHANGED <<arg, detVars, data0, passes, trVars>>

\* interp1d raises ValueError when it is given too few knots: always for no
\* knot; for a single knot it depends on the SciPy release (2 entries were
\* required by the releases that still had scipy.stats.nanmean).
RmInterpolateFail ==
    /\ pc = "rm"
    /\ arg.interpolate
    /\ Cardinality(FiniteIdx(data0, arg.missing)) <= 1
    /\ pc' = "failed"
    /\ UNCHANGED <<arg, detVars, rmVars, trVars>>

DataVals == {R(0), R(1), R(2), NaN, Inf}
DataMissing == {R(0), R(2)}

InitRm ==
    /\ pc = "rm"
    /\ \E n \in 0..MaxLenData : data0 \in [1..n -> DataVals]
    /\ data = <<>>
    /\ passes = 0
    /\ arg \in [missing : DataMissing, interpolate : BOOLEAN]
    /\ x = <<>> /\ y = <<>> /\ time = <<>> /\ i = 0
    /\ vel = <<>> /\ acc = <<>>
    /\ Idle /\ NoTrace

NextRm ==
    \/ RmStart \/ RmStartFail \/ RmPass \/ RmReturn
    \/ RmInterpolate \/ RmInterpolateFail

SpecRm == InitRm /\ [][NextRm]_vars

(***************************************************************************)
(* Claims about replace_missings.                                          *)
(***************************************************************************)
WasMissing(k) == REq(data0[k], arg.missing)

\* The nearest sample before position k that was not missing, or nan.
CarriedValue(k) ==
    IF \E j \in 1..(k - 1) : ~WasMissing(j)
    THEN data0[CHOOSE j \in 1..(k - 1) :
                 ~WasMissing(j) /\ \A h \in (j + 1)..(k - 1) : WasMissing(h)]
    ELSE NaN

\* C8: on a non-empty array, replace_missings with interpolate=False
\* terminates (the while loop runs at most len(data) times and the call does
\* not fail) and returns an array of the same length with no element equal to
\* the sentinel, every non-missing sample unchanged and every missing sample
\* equal to the nearest preceding non-missing sample, or nan when there is
\* none; the array passed in is a different array and is not touched.
C8_CarryForward ==
    (~arg.interpolate /\ Len(data0) > 0) =>
        /\ pc \in {"rm", "rm_loop", "done"}
        /\ passes <= Len(data0)
        /\ pc = "rm_loop" =>
              Cardinality(RmIdx(data, arg.missing)) + passes <= Len(data0)
        /\ pc = "done" =>
              /\ Len(data) = Len(data0)
              /\ \A k \in 1..Len(data) :
                    /\ ~REq(data[k], arg.missing)
                    /\ ~WasMissing(k) => data[k] = data0[k]
                    /\ WasMissing(k) => data[k] = CarriedValue(k)

\* C8 witness: the call has returned after two passes on an array whose
\* first sample was missing and that had a missing sample after a valid one.
C8_Witness ==
    /\ pc = "done"
    /\ ~arg.interpolate
    /\ passes >= 2
    /\ WasMissing(1)
    /\ \E k \in 2..Len(data0) : WasMissing(k) /\ data[k] # NaN

(***************************************************************************)
(* traces.interpolate_missing(signal, mode, mindur, margin, invalid)       *)
(* ndim is the number of dimensions of the array; the samples of an array  *)
(* of another dimension do not matter, since the call fails before they    *)
(* are read.                                                               *)
(***************************************************************************)
\* a + b, a * b and a / b of floats (nan when an operand is not finite).
RAdd(a, b) ==
    IF ~IsFinite(a) \/ ~IsFinite(b) THEN NaN
    ELSE RNorm(a[1] * b[2] + b[1] * a[2], a[2] * b[2])
RMul(a, b) ==
    IF ~IsFinite(a) \/ ~IsFinite(b) THEN NaN
    ELSE RNorm(a[1] * b[1], a[2] * b[2])
RDiv(a, b) ==
    IF ~IsFinite(a) \/ ~IsFinite(b) THEN NaN
    ELSE RNorm(a[1] * b[2], a[2] * b[1])

RECURSIVE RSum(_)
RSum(q) == IF Len(q) = 0 THEN R(0) ELSE RAdd(Head(q), RSum(Tail(q)))

\* numpy.mean(q): nan for an empty array.
Mean(q) == IF Len(q) = 0 THEN NaN ELSE RDiv(RSum(q), R(Len(q)))

\* signal[signal != invalid].
Valid(sig, inv) == SelectSeq(sig, LAMBDA v : ~REq(v, inv))

\* numpy.where(numpy.diff(signal == invalid) == True)[0]: the indices k at
\* which sample k and sample k+1 differ in being invalid.
Changes(sig, inv) ==
    SelectSeq(Range(Len(sig) - 1),
              LAMBDA k : REq(Py(sig, k), inv) # REq(Py(sig, k + 1), inv))

\* The entries of range(from, n, 2), as a sequence.
Range2(from, n) ==
    [k \in 1..(IF n > from THEN (n - from + 1) \div 2 ELSE 0) |-> from + 2 * (k - 1)]

\* The lists starts and ends of interpolate_missing.
ImStartsOf(sig, inv, margin) ==
    LET first == REq(Py(sig, 0), inv)
        ch == Changes(sig, inv)
        r == Range2(IF first THEN 1 ELSE 0, Len(ch))
    IN  (IF first THEN <<0>> ELSE <<>>)
        \o [k \in 1..Len(r) |-> Max(0, Py(ch, r[k]) - margin)]
ImEndsOfMutNoClamp(sig, inv, margin) ==
    LET first == REq(Py(sig, 0), inv)
        ch == Changes(sig, inv)
        r == Range2(IF first THEN 0 ELSE 1, Len(ch))
    IN  [k \in 1..Len(r) |-> Py(ch, r[k]) + 1 + margin]
        \o (IF REq(Py(sig, -1), inv) THEN <<Len(sig) - 1>> ELSE <<>>)
ImEndsOf(sig, inv, margin) ==
    LET first == REq(Py(sig, 0), inv)
        ch == Changes(sig, inv)
        r == Range2(IF first THEN 0 ELSE 1, Len(ch))
    IN  [k \in 1..Len(r) |->
            IF Py(ch, r[k]) + 1 + margin >= Len(sig) THEN Len(sig) - 1
            ELSE Py(ch, r[k]) + 1 + margin]
        \o (IF REq(Py(sig, -1), inv) THEN <<Len(sig) - 1>> ELSE <<>>)

\* "if signal[0] == invalid: signal[0] = mean(signal[signal != invalid])",
\* then the same for signal[-1].
FixEndpointsMutKeep(sig, inv) == sig
FixEndpoints(sig, inv) ==
    LET a == IF REq(Py(sig, 0), inv)
             THEN [sig EXCEPT ![1] = Mean(Valid(sig, inv))] ELSE sig
    IN  IF REq(Py(a, -1), inv)
        THEN [a EXCEPT ![Len(a)] = Mean(Valid(a, inv))] ELSE a

\* The interpolation knots pl of the interval from s to e.
ImKnots(sig, inv, s, e) ==
    LET d == e - s
    IN  (IF s - d >= 0 /\ ~REq(Py(sig, s - d), inv) THEN <<s - d>> ELSE <<>>)
        \o <<s, e>>
        \o (IF e + d < Len(sig) /\ ~REq(Py(sig, e + d), inv) THEN <<e + d>> ELSE <<>>)

\* The kind of interpolation of an interval of the given duration.
ImKind(mode, mindur, duration, nknots) ==
    IF duration < mindur THEN "linear"
    ELSE IF mode = "auto" THEN (IF nknots >= 4 THEN "cubic" ELSE "linear")
    ELSE mode

\* interp1d raises ValueError when a cubic fit gets fewer than 4 knots.
Interp1dRaises(kind, nknots) == kind = "cubic" /\ nknots < 4

\* Linear interp1d(pl, sig[pl])(t): the segment is found by searchsorted
\* (the number of knots below t, clipped to 1..len-1); a nan at either end
\* of the segment gives nan.
Interp1dLin(sig, pl, t) ==
    LET below == Cardinality({k \in 1..Len(pl) : pl[k] < t})
        hi == Min(Max(below, 1), Len(pl) - 1)
        lo == hi - 1
        ylo == Py(sig, Py(pl, lo))
        yhi == Py(sig, Py(pl, hi))
    IN  IF ~IsFinite(ylo) \/ ~IsFinite(yhi) \/ Py(pl, lo) = Py(pl, hi) THEN NaN
        ELSE Lerp(Py(pl, lo), ylo, Py(pl, hi), yhi, t)

\* Cubic interp1d through four knots: the cubic polynomial through them
\* (Lagrange form).
LagrangeTerm(sig, pl, j, t) ==
    LET others == {m \in 1..4 : m # j}
        k1 == CHOOSE m \in others : TRUE
        k2 == CHOOSE m \in others \ {k1} : TRUE
        k3 == CHOOSE m \in others \ {k1, k2} : TRUE
    IN  RMul(Py(sig, pl[j]),
             RNorm((t - pl[k1]) * (t - pl[k2]) * (t - pl[k3]),
                   (pl[j] - pl[k1]) * (pl[j] - pl[k2]) * (pl[j] - pl[k3])))
Interp1dCubic(sig, pl, t) ==
    RAdd(RAdd(LagrangeTerm(sig, pl, 1, t), LagrangeTerm(sig, pl, 2, t)),
         RAdd(LagrangeTerm(sig, pl, 3, t), LagrangeTerm(sig, pl, 4, t)))

\* "signal[xint] = intfunc(xint)" with xint = arange(s, e): y = signal[pl] is
\* read before the signal is written.
Interpolated(sig, pl, kind, s, e) ==
    [k \in 1..Len(sig) |->
        IF s <= k - 1 /\ k - 1 < e
        THEN IF kind = "linear" THEN Interp1dLin(sig, pl, k - 1)
             ELSE Interp1dCubic(sig, pl, k - 1)
        ELSE sig[k]]

\* "mode not in ['auto','linear','cubic']" is false: the mode is supported.
ModeSupportedMutAny(mode) == TRUE
ModeSupported(mode) == mode \in {"auto", "linear", "cubic"}

\* The mode is not supported: Exception, before the signal is read.
ImBadMode ==
    /\ pc = "im"
    /\ ~ModeSupported(arg.mode)
    /\ pc' = "failed"
    /\ UNCHANGED <<arg, detVars, rmVars, trVars>>

\* "signal.ndim != 1": Exception, before the signal is read.
ImBadDim ==
    /\ pc = "im"
    /\ ModeSupported(arg.mode)
    /\ arg.ndim # 1
    /\ pc' = "failed"
    /\ UNCHANGED <<arg, detVars, rmVars, trVars>>

\* interpolate_missing up to its loop: the lists starts and ends, then the
\* correction of an invalid first and last sample.
ImStart ==
    /\ pc = "im"
    /\ ModeSupported(arg.mode)
    /\ arg.ndim = 1
    /\ Len(signal) > 0
    /\ imStarts' = ImStartsOf(signal, arg.invalid, arg.margin)
    /\ imEnds' = ImEndsOf(signal, arg.invalid, arg.margin)
    /\ signal' = FixEndpoints(signal, arg.invalid)
    /\ i' = 0
    /\ pc' = "im_loop"
    /\ UNCHANGED <<arg, streamVars, blinkVars, fixVars, sacVars, rmVars, signal0,
                   moreVars>>

\* signal[0] of an empty array: IndexError.
ImStartFail ==
    /\ pc = "im"
    /\ ModeSupported(arg.mode)
    /\ arg.ndim = 1
    /\ Len(signal) = 0
    /\ pc' = "failed"
    /\ UNCHANGED <<arg, detVars, rmVars, trVars>>

\* One iteration of "for i in range(len(starts))" that interpolates.
ImIter ==
    /\ pc = "im_loop"
    /\ i < Len(imStarts)
    /\ LET s == Py(imStarts, i)
           e == Py(imEnds, i)
           pl == ImKnots(signal, arg.invalid, s, e)
           kind == ImKind(arg.mode, arg.mindur, e - s, Len(pl))
       IN  /\ ~Interp1dRaises(kind, Len(pl))
           /\ signal' = Interpolated(signal, pl, kind, s, e)
    /\ i' = i + 1
    /\ UNCHANGED <<pc, arg, streamVars, blinkVars, fixVars, sacVars, rmVars,
                   signal0, imStarts, imEnds, moreVars>>

\* The iteration in which interp1d raises: the exception leaves the call.
ImIterFail ==
    /\ pc = "im_loop"
    /\ i < Len(imStarts)
    /\ LET s == Py(imStarts, i)
           e == Py(imEnds, i)
           pl == ImKnots(signal, arg.invalid, s, e)
           kind == ImKind(arg.mode, arg.mindur, e - s, Len(pl))
       IN  Interp1dRaises(kind, Len(pl))
    /\ pc' = "failed"
    /\ UNCHANGED <<arg, detVars, rmVars, trVars>>

\* "return signal".
ImReturn ==
    /\ pc = "im_loop"
    /\ i >= Len(imStarts)
    /\ pc' = "done"
    /\ UNCHANGED <<arg, detVars, rmVars, trVars>>

SignalVals == {R(-1), R(1), R(3)}
ImModes == {"auto", "linear", "cubic"}
ImMinDur == {1, 3}
ImMargin == {0, 1}
ImModeArgs == ImModes \cup {"nearest"}
ImNdim == {1, 2}

InitIm ==
    /\ pc = "im"
    /\ \E n \in 0..MaxLenSignal : signal0 \in [1..n -> SignalVals]
    /\ signal = signal0
    /\ imStarts = <<>> /\ imEnds = <<>>
    /\ NoMore
    /\ arg \in [mode : ImModeArgs, ndim : ImNdim, mindur : ImMinDur,
                 margin : ImMargin, invalid : {R(-1)}]
    /\ x = <<>> /\ y = <<>> /\ time = <<>> /\ i = 0
    /\ vel = <<>> /\ acc = <<>>
    /\ data0 = <<>> /\ data = <<>> /\ passes = 0
    /\ Idle

NextIm ==
    \/ ImBadMode \/ ImBadDim
    \/ ImStart \/ ImStartFail \/ ImIter \/ ImIterFail \/ ImReturn

SpecIm == InitIm /\ [][NextIm]_vars


(***************************************************************************)
(* traces.remove_outliers(signal, maxdev, invalid, interpolate, mode,      *)
(*                        allowp)                                          *)
(***************************************************************************)
DefaultMindur == 5    \* interpolate_missing(..., mindur=5, ...)
DefaultMargin == 10   \* interpolate_missing(..., margin=10, ...)

\* numpy.std(signal) squared: the mean of the squared deviations.
Variance(sig) ==
    LET mean == Mean(sig)
    IN  Mean([k \in 1..Len(sig) |->
                LET d == RSub(sig[k], mean) IN RMul(d, d)])

\* "sd < mean*allowp", with sd the non-negative root of the variance.
SdTooLowMutNever(sig, allowp) == FALSE
SdTooLow(sig, allowp) ==
    LET limit == RMul(Mean(sig), allowp)
    IN  /\ IsFinite(limit)
        /\ RGt(limit, R(0))
        /\ RLt(Variance(sig), RMul(limit, limit))

\* "(signal > upper) | (signal < lower)" for one sample v, given the mean
\* and the squared sd: v is farther than maxdev*sd from the mean
\* (maxdev >= 0).
IsOutlier(mean, var, maxdev, v) ==
    LET d == RSub(v, mean)
    IN  RGt(RMul(d, d), RMul(RMul(maxdev, maxdev), var))

\* "signal[outlier] = invalid".
MarkOutliersMutNone(sig, maxdev, inv) == sig
MarkOutliers(sig, maxdev, inv) ==
    LET mean == Mean(sig)
        var == Variance(sig)
    IN  [k \in 1..Len(sig) |->
            IF IsOutlier(mean, var, maxdev, sig[k]) THEN inv ELSE sig[k]]

\* The mode is not supported: Exception, before the signal is read.
RoBadMode ==
    /\ pc = "ro"
    /\ ~ModeSupported(arg.mode)
    /\ pc' = "failed"
    /\ UNCHANGED <<arg, detVars, rmVars, trVars>>

\* "signal.ndim != 1": Exception, before the signal is read.
RoBadDim ==
    /\ pc = "ro"
    /\ ModeSupported(arg.mode)
    /\ arg.ndim # 1
    /\ pc' = "failed"
    /\ UNCHANGED <<arg, detVars, rmVars, trVars>>

\* "if sd < mean*allowp: return signal".
RoSteady ==
    /\ pc = "ro"
    /\ ModeSupported(arg.mode)
    /\ arg.ndim = 1
    /\ SdTooLow(signal, arg.allowp)
    /\ pc' = "done"
    /\ UNCHANGED <<arg, detVars, rmVars, trVars>>

\* Outliers marked, interpolate=False: "return signal".
RoMark ==
    /\ pc = "ro"
    /\ ModeSupported(arg.mode)
    /\ arg.ndim = 1
    /\ ~SdTooLow(signal, arg.allowp)
    /\ ~arg.interpolate
    /\ signal' = MarkOutliers(signal, arg.maxdev, arg.invalid)
    /\ pc' = "done"
    /\ UNCHANGED <<arg, detVars, rmVars, signal0, imStarts, imEnds, moreVars>>

\* Outliers marked, interpolate=True: the call
\* interpolate_missing(signal, mode=mode, invalid=invalid), whose result
\* remove_outliers returns.
RoInterpolate ==
    /\ pc = "ro"
    /\ ModeSupported(arg.mode)
    /\ arg.ndim = 1
    /\ ~SdTooLow(signal, arg.allowp)
    /\ arg.interpolate
    /\ signal' = MarkOutliers(signal, arg.maxdev, arg.invalid)
    /\ arg' = [mode |-> arg.mode, ndim |-> arg.ndim, mindur |-> DefaultMindur,
               margin |-> DefaultMargin, invalid |-> arg.invalid]
    /\ pc' = "im"
    /\ UNCHANGED <<detVars, rmVars, signal0, imStarts, imEnds, moreVars>>

RoMaxDev == {R(1), <<5, 2>>}
RoAllowP == {<<1, 10>>, R(1)}

InitRo ==
    /\ pc = "ro"
    /\ \E n \in 0..MaxLenSignal : signal0 \in [1..n -> SignalVals]
    /\ signal = signal0
    /\ imStarts = <<>> /\ imEnds = <<>>
    /\ NoMore
    /\ arg \in [maxdev : RoMaxDev, invalid : {R(-1)}, interpolate : BOOLEAN,
                 mode : ImModeArgs, ndim : ImNdim, allowp : RoAllowP]
    /\ x = <<>> /\ y = <<>> /\ time = <<>> /\ i = 0
    /\ vel = <<>> /\ acc = <<>>
    /\ data0 = <<>> /\ data = <<>> /\ passes = 0
    /\ Idle

NextRo == RoBadMode \/ RoBadDim \/ RoSteady \/ RoMark \/ RoInterpolate

\* Calls of replace_missings and of interpolate_missing.
InitMissing == InitRm \/ InitIm
NextMissing == NextRm \/ NextIm
SpecMissing == InitMissing /\ [][NextMissing]_vars

\* Calls of interpolate_missing and of remove_outliers.
InitTraces == InitIm \/ InitRo
NextTraces == NextIm \/ NextRo
SpecTraces == InitTraces /\ [][NextTraces]_vars


(***************************************************************************)
(* Signals without missing samples (C9)                                    *)
(***************************************************************************)
\* The call in progress is one of replace_missings, of interpolate_missing.
IsRmCall == "missing" \in DOMAIN arg
IsImCall == "mindur" \in DOMAIN arg

\* No sample of the signal equals the missing/invalid code.
Clean(sig, code) == \A k \in 1..Len(sig) : ~REq(sig[k], code)
AllFinite(sig) == \A k \in 1..Len(sig) : IsFinite(sig[k])

\* C9 as stated: for every signal with no sample equal to the
\* missing/invalid code, replace_missings (both modes) and
\* interpolate_missing (every mode, mindur and margin) return a signal
\* equal to the input (the modes are the supported ones, the signal a
\* one-dimensional array).
C9_Original ==
    /\ (IsRmCall /\ Clean(data0, arg.missing)) =>
            /\ pc # "failed"
            /\ pc = "done" => data = data0
    /\ (IsImCall /\ ModeSupported(arg.mode) /\ arg.ndim = 1
            /\ Clean(signal0, arg.invalid)) =>
            /\ pc # "failed"
            /\ pc = "done" => signal = signal0

\* C9, amended: a signal with no sample equal to the missing/invalid code is
\* returned unchanged, without an exception, (a) by replace_missings with
\* interpolate=False when it is non-empty, (b) by replace_missings with
\* interpolate=True when it has at least two samples and all of them are
\* finite, (c) by interpolate_missing, for every supported mode, mindur and
\* margin, when it is a non-empty one-dimensional array.
C9_CleanSignalUnchanged ==
    /\ (IsRmCall /\ ~arg.interpolate /\ Clean(data0, arg.missing)
            /\ Len(data0) >= 1) =>
            /\ pc # "failed"
            /\ pc = "done" => data = data0
    /\ (IsRmCall /\ arg.interpolate /\ Clean(data0, arg.missing)
            /\ AllFinite(data0) /\ Len(data0) >= 2) =>
            /\ pc # "failed"
            /\ pc = "done" => data = data0
    /\ (IsImCall /\ ModeSupported(arg.mode) /\ arg.ndim = 1
            /\ Clean(signal0, arg.invalid) /\ Len(signal0) >= 1) =>
            /\ pc # "failed"
            /\ pc = "done" => signal = signal0

\* replace_missings has returned, in interpolate mode, a finite signal of
\* three or more samples none of which is the sentinel.
C9_Witness ==
    /\ pc = "done"
    /\ IsRmCall
    /\ arg.interpolate
    /\ Len(data0) >= 3
    /\ Clean(data0, arg.missing)
    /\ AllFinite(data0)
    /\ data = data0

\* interpolate_missing has returned a signal of three or more samples none
\* of which is the invalid code (supports C9, case c).
C9_WitnessIm ==
    /\ pc = "done"
    /\ IsImCall
    /\ Len(signal0) >= 3
    /\ Clean(signal0, arg.invalid)
    /\ signal = signal0

(***************************************************************************)
(* Failing calls (C10)                                                     *)
(***************************************************************************)
\* C10: when interpolate_missing or remove_outliers fails, the caller's
\* signal array holds exactly the values it held before the call.
C10_FailureLeavesSignal == pc = "failed" => signal = signal0

\* The case named by C10: cubic interpolation is forced, an interval has
\* fewer than 4 knots, and an earlier interval was already interpolated.
C10_FailedAfterInterpolating ==
    /\ pc = "failed"
    /\ i >= 1
    /\ signal # signal0

(***************************************************************************)
(* The starts list of blink_detection (C18)                                *)
(***************************************************************************)
\* C18 as stated: Sblk gets an entry for every rising edge of the missing
\* mask that has been processed, whether or not the run reaches minlen, so
\* on return it has one entry per rising edge.
C18_Original ==
    pc \in {"blink", "done"} /\ "minlen" \in DOMAIN arg =>
        Len(Sblk) = Min(i, Len(starts))

\* C18, amended: Sblk is filtered exactly as Eblk is.  At every step of the
\* loop and on return the two lists have the same length, at most the
\* number of rising edges processed, and the k-th entry of Sblk is the start
\* time of the k-th end-record.
C18_StartsFiltered ==
    pc \in {"blink", "done"} /\ "minlen" \in DOMAIN arg =>
        /\ Len(Sblk) = Len(Eblk)
        /\ Len(Eblk) <= Min(i, Len(starts))
        /\ \A k \in 1..Len(Eblk) : Sblk[k] = <<Eblk[k][1]>>

\* blink_detection has returned, and a run that ended before it reached
\* minlen samples has an entry in neither list.
C18_Witness ==
    /\ pc = "done"
    /\ "minlen" \in DOMAIN arg
    /\ Len(starts) > Len(Sblk)
    /\ \E n \in 0..(Len(starts) - 1) :
          /\ BlinkEndIndex(n, ends) > Py(starts, n)
          /\ BlinkEndIndex(n, ends) - Py(starts, n) < arg.minlen

(***************************************************************************)
(* The lists of fixation_detection (C20)                                   *)
(***************************************************************************)
\* C20: at every step of the scan, and on return, Sfix has one entry more
\* than Efix when fixstart is true and as many when it is false, and the
\* k-th end-record starts at the k-th entry of Sfix; the open fixation, if
\* any, is the last entry of Sfix and has no end-record.
C20_FixListsAligned ==
    pc \in {"fix", "done"} /\ "maxdist" \in DOMAIN arg =>
        /\ Len(Sfix) = Len(Efix) + (IF fixstart THEN 1 ELSE 0)
        /\ \A k \in 1..Len(Efix) : Efix[k][1] = Sfix[k][1]

\* fixation_detection has returned with a fixation still open, opened after
\* the end of a fixation that it stored.
C20_Witness ==
    /\ pc = "done"
    /\ "maxdist" \in DOMAIN arg
    /\ fixstart
    /\ Len(Efix) >= 1
    /\ Len(Sfix) = Len(Efix) + 1
    /\ Py(Sfix, -1)[1] > Py(Efix, -1)[2]

(***************************************************************************)
(* Termination of the scanning loop of saccade_detection (C17)             *)
(***************************************************************************)
\* Calls of saccade_detection on streams sampled at a constant interval of
\* 1 ms, with one velocity threshold, one acceleration threshold and one
\* minimal length.
InitSacLive ==
    /\ pc = "sac"
    /\ \E n \in 0..MaxLenSac :
         /\ \E p \in [1..n -> SacXY] :
              /\ x = [k \in 1..n |-> p[k][1]]
              /\ y = [k \in 1..n |-> p[k][2]]
         /\ time = [k \in 1..n |-> k - 1]
    /\ vel = VelOf(x, y, time)
    /\ acc = AccOf(vel)
    /\ data0 = <<>> /\ data = <<>> /\ passes = 0
    /\ NoTrace
    /\ arg \in [maxvel : {3000}, maxacc : {1000}, minlen : {5}]
    /\ i = 0
    /\ Idle

\* The while loop runs on: an iteration that is possible is taken.
SpecSacLive == InitSacLive /\ [][NextSac]_vars /\ WF_vars(NextSac)

\* C17: every iteration of the scanning loop either stops the loop or moves
\* the cursor t0i strictly forward, the cursor never passes the last sample,
\* and the loop terminates.
C17_SacTerminates ==
    /\ [][pc' = "done" \/ t0i' > t0i]_vars
    /\ [](t0i <= Max(Len(time) - 1, 0))
    /\ <>(pc = "done")

\* saccade_detection has returned on a stream of at least three samples
\* after an iteration that found a start and an end and moved the cursor,
\* followed by an iteration that found a start but no end.
C17_Witness ==
    /\ pc = "done"
    /\ "maxvel" \in DOMAIN arg
    /\ Len(time) >= 3
    /\ t0i > 0
    /\ Len(Ssac) > Len(Esac)

\* The safety part of C17 for every call of SpecSac (all sampling intervals
\* and thresholds): the cursor moves strictly forward on every iteration
\* that does not stop the loop, and never passes the last sample.
C17_CursorAdvances ==
    /\ [][pc' = "done" \/ t0i' > t0i]_vars
    /\ [](t0i <= Max(Len(time) - 1, 0))

(***************************************************************************)
(* Steady signals given to remove_outliers (C16)                           *)
(***************************************************************************)
\* The call in progress is one of remove_outliers.
IsRoCall == "maxdev" \in DOMAIN arg

\* The standard deviation of the signal, taken over all samples, is below
\* allowp times its mean: the product is positive and exceeds the root of
\* the variance.
SdBelowFraction(sig, allowp) ==
    LET bound == RMul(allowp, Mean(sig))
    IN  /\ IsFinite(bound)
        /\ RGt(bound, R(0))
        /\ RLt(Variance(sig), RMul(bound, bound))

\* C16: for every signal whose standard deviation is below allowp times its
\* mean, remove_outliers returns the input signal with every sample
\* unchanged, whatever maxdev, invalid, interpolate and mode are (the
\* signal a one-dimensional array, the mode a supported one).
C16_SteadyUnchanged ==
    (IsRoCall /\ ModeSupported(arg.mode) /\ arg.ndim = 1
        /\ SdBelowFraction(signal0, arg.allowp)) =>
        /\ pc \in {"ro", "done"}
        /\ signal = signal0

\* remove_outliers has returned a steady signal that holds a sample farther
\* than maxdev standard deviations from the mean, with interpolate=True.
C16_Witness ==
    /\ pc = "done"
    /\ IsRoCall
    /\ arg.interpolate
    /\ SdBelowFraction(signal0, arg.allowp)
    /\ \E k \in 1..Len(signal0) :
          IsOutlier(Mean(signal0), Variance(signal0), arg.maxdev, signal0[k])
    /\ signal = signal0

(***************************************************************************)
(* traces.smooth(signal, winlen, window, lencorrect)                       *)
(* winlen is an integer, so line 552 leaves it as it is; "/" between       *)
(* integers is the floor division of Python 2, for which the module was    *)
(* written.  ndim is the number of dimensions of the array; the samples of *)
(* an array of another dimension do not matter, since the call fails       *)
(* before they are read.                                                   *)
(***************************************************************************)
MaxLenSmooth == 5     \* longest signal given to smooth

\* q[a:b] of Python for integers a and b (negative ones count from the end).
Slice(q, a, b) ==
    LET n == Len(q)
        lo == IF a < 0 THEN Max(n + a, 0) ELSE Min(a, n)
        hi == IF b < 0 THEN Max(n + b, 0) ELSE Min(b, n)
    IN  IF hi > lo THEN [k \in 1..(hi - lo) |-> q[lo + k]] ELSE <<>>

\* The window names that smooth accepts.
SmWindows == {"flat", "hanning", "hamming", "bartlett", "blackman"}

\* numpy.ones(M) and numpy.hanning(M), hamming(M), bartlett(M), blackman(M)
\* for M = 3, 4, 5, where the cosines are rational.
Kernel(window, M) ==
    IF window = "flat" THEN [k \in 1..M |-> R(1)]
    ELSE IF window = "hanning" THEN
        IF M = 3 THEN <<R(0), R(1), R(0)>>
        ELSE IF M = 4 THEN <<R(0), <<3, 4>>, <<3, 4>>, R(0)>>
        ELSE <<R(0), <<1, 2>>, R(1), <<1, 2>>, R(0)>>
    ELSE IF window = "hamming" THEN
        IF M = 3 THEN <<<<2, 25>>, R(1), <<2, 25>>>>
        ELSE IF M = 4 THEN <<<<2, 25>>, <<77, 100>>, <<77, 100>>, <<2, 25>>>>
        ELSE <<<<2, 25>>, <<27, 50>>, R(1), <<27, 50>>, <<2, 25>>>>
    ELSE IF window = "bartlett" THEN
        IF M = 3 THEN <<R(0), R(1), R(0)>>
        ELSE IF M = 4 THEN <<R(0), <<2, 3>>, <<2, 3>>, R(0)>>
        ELSE <<R(0), <<1, 2>>, R(1), <<1, 2>>, R(0)>>
    ELSE
        IF M = 3 THEN <<R(0), R(1), R(0)>>
        ELSE IF M = 4 THEN <<R(0), <<63, 100>>, <<63, 100>>, R(0)>>
        ELSE <<R(0), <<17, 50>>, R(1), <<17, 50>>, R(0)>>

\* "w/w.sum()".
NormalisedMutRaw(w) == w
Normalised(w) == [k \in 1..Len(w) |-> RDiv(w[k], RSum(w))]

\* numpy.r_[signal[winlen-1:0:-1], signal, signal[-1:-winlen:-1]] for a
\* signal of at least winlen samples.
Padded(sig, winlen) ==
    [k \in 1..(winlen - 1) |-> Py(sig, winlen - k)]
    \o sig
    \o [k \in 1..(winlen - 1) |-> Py(sig, Len(sig) - k)]

\* numpy.convolve(w, s, mode='valid') for len(s) >= len(w).
Convolve(w, s) ==
    [k \in 1..(Len(s) - Len(w) + 1) |->
        RSum([j \in 1..Len(w) |-> RMul(w[j], s[k + Len(w) - j])])]

\* "smoothed[(winlen/2-1):(-winlen/2)]", then "smoothed[:len(signal)]".
LenCorrectMutNoTrim(sm, winlen, n) == sm
LenCorrect(sm, winlen, n) ==
    Slice(Slice(sm, (winlen \div 2) - 1, (-winlen) \div 2), 0, n)

\* The array smooth returns for a valid call with winlen >= 3.
Smoothed(sig, winlen, window, lencorrect) ==
    LET sm == Convolve(Normalised(Kernel(window, winlen)), Padded(sig, winlen))
    IN  IF lencorrect THEN LenCorrect(sm, winlen, Len(sig)) ELSE sm

\* "if winlen < 3: return signal": before any other test.
SmSmall ==
    /\ pc = "sm"
    /\ arg.winlen < 3
    /\ smoothed' = signal
    /\ pc' = "done"
    /\ UNCHANGED <<arg, detVars, rmVars, signal0, signal, imStarts, imEnds,
                   ifrom, c, is_moving, moving>>

\* The window name is not supported: Exception.
SmBadWindow ==
    /\ pc = "sm"
    /\ arg.winlen >= 3
    /\ arg.window \notin SmWindows
    /\ pc' = "failed"
    /\ UNCHANGED <<arg, detVars, rmVars, trVars>>

\* The signal is not one-dimensional: Exception.
SmBadDim ==
    /\ pc = "sm"
    /\ arg.winlen >= 3
    /\ arg.window \in SmWindows
    /\ arg.ndim # 1
    /\ pc' = "failed"
    /\ UNCHANGED <<arg, detVars, rmVars, trVars>>

\* The signal has fewer samples than winlen: Exception.
SmTooShort ==
    /\ pc = "sm"
    /\ arg.winlen >= 3
    /\ arg.window \in SmWindows
    /\ arg.ndim = 1
    /\ Len(signal) < arg.winlen
    /\ pc' = "failed"
    /\ UNCHANGED <<arg, detVars, rmVars, trVars>>

\* The smoothing itself, "return smoothed".
SmSmooth ==
    /\ pc = "sm"
    /\ arg.winlen >= 3
    /\ arg.window \in SmWindows
    /\ arg.ndim = 1
    /\ Len(signal) >= arg.winlen
    /\ smoothed' = Smoothed(signal, arg.winlen, arg.window, arg.lencorrect)
    /\ pc' = "done"
    /\ UNCHANGED <<arg, detVars, rmVars, signal0, signal, imStarts, imEnds,
                   ifrom, c, is_moving, moving>>

SmVals == {R(-1), R(0), R(2)}
SmWinlen == 1..5
SmWindowArgs == SmWindows \cup {"boxcar"}
SmNdim == {1, 2}

InitSm ==
    /\ pc = "sm"
    /\ \E n \in 0..MaxLenSmooth : signal0 \in [1..n -> SmVals]
    /\ signal = signal0
    /\ imStarts = <<>> /\ imEnds = <<>>
    /\ NoMore
    /\ arg \in [winlen : SmWinlen, window : SmWindowArgs, ndim : SmNdim,
                 lencorrect : BOOLEAN]
    /\ x = <<>> /\ y = <<>> /\ time = <<>> /\ i = 0
    /\ vel = <<>> /\ acc = <<>>
    /\ data0 = <<>> /\ data = <<>> /\ passes = 0
    /\ Idle

NextSm == SmSmall \/ SmBadWindow \/ SmBadDim \/ SmTooShort \/ SmSmooth

SpecSm == InitSm /\ [][NextSm]_vars

(***************************************************************************)
(* Claims about smooth (C12, C13, C14)                                     *)
(***************************************************************************)
\* The call in progress is one of smooth.
IsSmCall == "winlen" \in DOMAIN arg

\* An argument that smooth is to reject: the window name is not supported,
\* the signal is not one-dimensional, or it has fewer samples than winlen.
SmInvalid ==
    \/ arg.window \notin {"flat", "hanning", "hamming", "bartlett", "blackman"}
    \/ arg.ndim # 1
    \/ Len(signal0) < arg.winlen

\* C12: for every value of winlen, smooth fails with an error whenever the
\* window name is not supported, the signal is not one-dimensional or the
\* signal has fewer samples than winlen; in none of these cases does it
\* return a signal.
C12_SmoothRejects ==
    (IsSmCall /\ SmInvalid) => pc # "done"

\* The same for winlen >= 3 only (supports C12): the three tests follow the
\* early return for winlen < 3.
C12_RejectsFromThree ==
    (IsSmCall /\ SmInvalid /\ arg.winlen >= 3) => pc \in {"sm", "failed"}

\* smooth has returned the signal although the window name is not supported.
C12_ReturnedUnchecked ==
    /\ pc = "done"
    /\ IsSmCall
    /\ arg.window = "boxcar"
    /\ smoothed = signal0

\* C13: for every signal of length n and every integer winlen with
\* 3 <= winlen <= n, odd or even, smooth returns exactly n samples with
\* lencorrect=True and n + winlen - 1 samples with lencorrect=False.
C13_SmoothLength ==
    (IsSmCall /\ pc = "done" /\ arg.winlen >= 3) =>
        /\ arg.winlen <= Len(signal0)
        /\ Len(smoothed) = IF arg.lencorrect THEN Len(signal0)
                           ELSE Len(signal0) + arg.winlen - 1

\* smooth has returned, with lencorrect=True and an even winlen, as many
\* samples as it was given, more than winlen.
C13_Witness ==
    /\ pc = "done"
    /\ IsSmCall
    /\ arg.lencorrect
    /\ arg.winlen = 4
    /\ Len(signal0) > arg.winlen
    /\ Len(smoothed) = Len(signal0)

\* The signal is constant (and not empty).
IsConstant(sig) == Len(sig) > 0 /\ \A k \in 1..Len(sig) : sig[k] = sig[1]

\* C14: for every constant signal of length n >= winlen >= 3 and every
\* supported kernel, every sample that smooth returns equals that constant.
C14_SmoothConstant ==
    (IsSmCall /\ pc = "done" /\ arg.winlen >= 3 /\ IsConstant(signal0)) =>
        /\ Len(smoothed) >= Len(signal0)
        /\ \A k \in 1..Len(smoothed) : smoothed[k] = signal0[1]

\* smooth has returned, for a constant signal other than zero, the Hamming
\* kernel and lencorrect=False, that constant in every sample.
C14_Witness ==
    /\ pc = "done"
    /\ IsSmCall
    /\ arg.winlen >= 4
    /\ arg.window = "hamming"
    /\ ~arg.lencorrect
    /\ IsConstant(signal0)
    /\ signal0[1] # R(0)
    /\ Len(smoothed) = Len(signal0) + arg.winlen - 1
    /\ \A k \in 1..Len(smoothed) : smoothed[k] = signal0[1]

(***************************************************************************)
(* traces.hampel(signal, winlen, T, focus)                                 *)
(* winlen is a non-negative integer and "winlen/2" the floor division of   *)
(* Python 2.  The filter writes into the caller's array and returns it.    *)
(***************************************************************************)
MaxLenHampel == 5     \* longest signal given to hampel

\* The k-th smallest (k from 1) of the finite values of q.
Kth(q, k) ==
    CHOOSE v \in {q[j] : j \in 1..Len(q)} :
        /\ Cardinality({j \in 1..Len(q) : RLt(q[j], v)}) < k
        /\ Cardinality({j \in 1..Len(q) : ~RGt(q[j], v)}) >= k

\* numpy.median(q): nan for an empty array.
Median(q) ==
    IF Len(q) = 0 THEN NaN
    ELSE IF Len(q) % 2 = 1 THEN Kth(q, (Len(q) + 1) \div 2)
    ELSE RDiv(RAdd(Kth(q, Len(q) \div 2), Kth(q, Len(q) \div 2 + 1)), R(2))

\* numpy.abs(a) of a float.
RAbs(a) == IF IsFinite(a) THEN <<Abs(a[1]), a[2]>> ELSE IF IsNaN(a) THEN NaN ELSE Inf

\* "1.4826 * numpy.median(numpy.abs(window - med))".
S0(window, med) ==
    RMul(<<7413, 5000>>,
         Median([k \in 1..Len(window) |-> RAbs(RSub(window[k], med))]))

\* The first index of the loop and the index at which it stops.
HampelStart(focus, winlen, n) ==
    IF focus = "centre" THEN winlen \div 2
    ELSE IF focus = "left" THEN 0
    ELSE IF focus = "right" THEN winlen
    ELSE winlen \div 2
HampelStop(focus, winlen, n) ==
    IF focus = "centre" THEN n - (winlen \div 2) + 1
    ELSE IF focus = "left" THEN n - winlen
    ELSE IF focus = "right" THEN n
    ELSE n - (winlen \div 2) + 1

\* The window of sample k.
HampelWindow(sig, focus, winlen, k) ==
    IF focus = "left" THEN Slice(sig, k, k + winlen)
    ELSE IF focus = "right" THEN Slice(sig, k - winlen, k)
    ELSE Slice(sig, k - (winlen \div 2), k + (winlen \div 2))

\* "signal[i] > T*s0 or signal[i] < T*s0": the sample itself, not its
\* distance from the median, is compared with the threshold.
IsHampelOutlierMutDeviation(v, med, T, s0) ==
    RGt(RAbs(RSub(v, med)), RMul(T, s0))
IsHampelOutlier(v, med, T, s0) ==
    RGt(v, RMul(T, s0)) \/ RLt(v, RMul(T, s0))

\* The value written to sample k: the median of its window.
HampelValueMutZero(med) == R(0)
HampelValue(med) == med

\* One iteration of the loop over the samples, for an index inside the array.
HampelIter ==
    /\ pc = "hampel"
    /\ i < HampelStop(arg.focus, arg.winlen, Len(signal))
    /\ i < Len(signal)
    /\ LET window == HampelWindow(signal, arg.focus, arg.winlen, i)
           med == Median(window)
           s0 == S0(window, med)
       IN  signal' = IF IsHampelOutlier(Py(signal, i), med, arg.T, s0)
                     THEN [signal EXCEPT ![i + 1] = HampelValue(med)]
                     ELSE signal
    /\ i' = i + 1
    /\ UNCHANGED <<pc, arg, streamVars, blinkVars, fixVars, sacVars, rmVars,
                   signal0, imStarts, imEnds, moreVars>>

\* The loop reaches i = len(signal), which happens for winlen/2 = 0 unless
\* focus is 'left' or 'right': "signal[i]" raises IndexError.
HampelIndexError ==
    /\ pc = "hampel"
    /\ i < HampelStop(arg.focus, arg.winlen, Len(signal))
    /\ i >= Len(signal)
    /\ pc' = "failed"
    /\ UNCHANGED <<arg, detVars, rmVars, trVars>>

\* "return signal".
HampelReturn ==
    /\ pc = "hampel"
    /\ i >= HampelStop(arg.focus, arg.winlen, Len(signal))
    /\ pc' = "done"
    /\ UNCHANGED <<arg, detVars, rmVars, trVars>>

HampelVals == {R(0), R(1), R(5)}
HampelWinlen == 0..4
HampelT == {R(0), R(3)}
HampelFocus == {"centre", "left", "right", "middle"}

InitHampel ==
    /\ pc = "hampel"
    /\ \E n \in 0..MaxLenHampel : signal0 \in [1..n -> HampelVals]
    /\ signal = signal0
    /\ imStarts = <<>> /\ imEnds = <<>>
    /\ NoMore
    /\ arg \in [winlen : HampelWinlen, T : HampelT, focus : HampelFocus]
    /\ i = HampelStart(arg.focus, arg.winlen, Len(signal0))
    /\ x = <<>> /\ y = <<>> /\ time = <<>>
    /\ vel = <<>> /\ acc = <<>>
    /\ data0 = <<>> /\ data = <<>> /\ passes = 0
    /\ Idle

NextHampel == HampelIter \/ HampelIndexError \/ HampelReturn

SpecHampel == InitHampel /\ [][NextHampel]_vars

(***************************************************************************)
(* Constant signals given to hampel (C15)                                  *)
(***************************************************************************)
\* The call in progress is one of hampel with focus 'centre', 'left' or
\* 'right'.
IsHampelCall == "focus" \in DOMAIN arg /\ arg.focus \in {"centre", "left", "right"}

\* C15: for every constant signal, every window length, every threshold T
\* and every focus mode (centre, left, right), hampel returns the signal
\* with every sample unchanged.
C15_HampelConstant ==
    (IsHampelCall /\ IsConstant(signal0)) =>
        /\ pc # "failed"
        /\ signal = signal0

\* The same for window lengths of at least 2 (supports C15).
C15_ConstantFromTwo ==
    (IsHampelCall /\ IsConstant(signal0) /\ arg.winlen >= 2) =>
        /\ pc # "failed"
        /\ signal = signal0

\* hampel has returned a constant signal of which it rewrote samples (with
\* the same value).
C15_ReturnedConstant ==
    /\ pc = "done"
    /\ IsHampelCall
    /\ arg.winlen >= 2
    /\ IsConstant(signal0)
    /\ signal0[1] # R(0)
    /\ Len(signal0) > arg.winlen
    /\ signal = signal0

(***************************************************************************)
(* EK_microsaccade_detection(x, y, times, minimum_duration)                *)
(* The timestamps are equally spaced, so dt, the median of their           *)
(* differences, is that spacing.  numpy.median of an array that holds nan  *)
(* depends on the NumPy release: nan (1.10 and later), or the middle of    *)
(* the values sorted with the nans last (earlier releases); the first and  *)
(* last two rows of vn are always nan, so the release decides eta.  The    *)
(* model takes either outcome.                                             *)
(***************************************************************************)
MaxLenEK == 9         \* longest stream given to EK_microsaccade_detection

\* Row k (0-based) of vn for one axis: the moving average of the velocity,
\* with numpy.roll wrapping around the ends, nan in the first and last two
\* rows.
VnOf(p, dt, k) ==
    LET n == Len(p)
    IN  IF k < 2 \/ k >= n - 2 THEN NaN
        ELSE RNorm(Py(p, (k + 2) % n) + Py(p, (k + 1) % n)
                   - Py(p, (k - 1) % n) - Py(p, (k - 2) % n), 6 * dt)

\* numpy.median of an array with nans, for a release that sorts them last.
MedianNanLast(q) ==
    LET fin == SelectSeq(q, IsFinite)
        n == Len(q)
        lo == IF n % 2 = 1 THEN (n + 1) \div 2 ELSE n \div 2
        hi == IF n % 2 = 1 THEN (n + 1) \div 2 ELSE n \div 2 + 1
    IN  IF n = 0 \/ hi > Len(fin) THEN NaN
        ELSE RDiv(RAdd(Kth(fin, lo), Kth(fin, hi)), R(2))

\* numpy.median of an array with nans, for a release that propagates them.
MedianNanPropagates(q) ==
    IF \E k \in 1..Len(q) : ~IsFinite(q[k]) THEN NaN ELSE Median(q)

\* eta = 6 * (median(vn**2) - median(vn)**2) for one axis.
EtaOf(vn, nanLast) ==
    LET sq == [k \in 1..Len(vn) |-> RMul(vn[k], vn[k])]
        m2 == IF nanLast THEN MedianNanLast(sq) ELSE MedianNanPropagates(sq)
        m1 == IF nanLast THEN MedianNanLast(vn) ELSE MedianNanPropagates(vn)
    IN  RMul(R(6), RSub(m2, RMul(m1, m1)))

\* "numpy.sum(vn > eta, axis=1) > 0": the velocity of a sample exceeds the
\* threshold on either axis.
MovingMask(xs, ys, dt, nanLast) ==
    LET vx == [k \in 1..Len(xs) |-> VnOf(xs, dt, k - 1)]
        vy == [k \in 1..Len(ys) |-> VnOf(ys, dt, k - 1)]
        ex == EtaOf(vx, nanLast)
        ey == EtaOf(vy, nanLast)
    IN  [k \in 1..Len(xs) |-> RGt(vx[k], ex) \/ RGt(vy[k], ey)]

\* The record opened at sample k, and the record closed at sample k.
EkOpened(k) ==
    <<R(Py(time, k)), NaN, NaN, R(Py(x, k)), R(Py(y, k)), NaN, NaN>>
EkClosed(rec, k) ==
    <<rec[1], R(Py(time, k)), rec[3], rec[4], rec[5], R(Py(x, k)), R(Py(y, k))>>

\* "Esac[:,2] = Esac[:,1] - Esac[:,0]" and the rows kept by
\* "Esac[:,2] >= minimum_duration".
EkKeepMutAll(dur, mindur) == TRUE
EkKeep(dur, mindur) == IsFinite(dur) /\ ~RLt(dur, R(mindur))
EkResult(recs, mindur) ==
    LET withDur == [k \in 1..Len(recs) |->
                      [recs[k] EXCEPT ![3] = RSub(recs[k][2], recs[k][1])]]
    IN  SelectSeq(withDur, LAMBDA rec : EkKeep(rec[3], mindur))

\* A moving sample while no run is open: a record is opened.
EkOpen ==
    /\ pc = "ek"
    /\ c < Len(moving)
    /\ Py(moving, c) /\ ~is_moving
    /\ Esac' = Append(Esac, EkOpened(c))
    /\ is_moving' = TRUE
    /\ c' = c + 1
    /\ UNCHANGED <<pc, arg, streamVars, i, blinkVars, fixVars, vel, acc, t0i,
                   Ssac, rmVars, signal0, signal, imStarts, imEnds, smoothed,
                   ifrom, moving>>

\* A sample that is not moving while a run is open: the record is closed.
EkClose ==
    /\ pc = "ek"
    /\ c < Len(moving)
    /\ ~Py(moving, c) /\ is_moving
    /\ Esac' = [Esac EXCEPT ![Len(Esac)] = EkClosed(Esac[Len(Esac)], c)]
    /\ is_moving' = FALSE
    /\ c' = c + 1
    /\ UNCHANGED <<pc, arg, streamVars, i, blinkVars, fixVars, vel, acc, t0i,
                   Ssac, rmVars, signal0, signal, imStarts, imEnds, smoothed,
                   ifrom, moving>>

\* Any other sample: nothing changes.
EkSkip ==
    /\ pc = "ek"
    /\ c < Len(moving)
    /\ Py(moving, c) = is_moving
    /\ c' = c + 1
    /\ UNCHANGED <<pc, arg, streamVars, i, blinkVars, fixVars, sacVars, rmVars,
                   signal0, signal, imStarts, imEnds, smoothed, ifrom,
                   is_moving, moving>>

\* The scan is over and found no moving sample: numpy.array([]) has one
\* dimension and "Esac[:,2]" raises IndexError.
EkEmptyFail ==
    /\ pc = "ek"
    /\ c >= Len(moving)
    /\ Len(Esac) = 0
    /\ pc' = "failed"
    /\ UNCHANGED <<arg, detVars, rmVars, trVars>>

\* The scan is over: durations, selection, "return Esac".
EkReturn ==
    /\ pc = "ek"
    /\ c >= Len(moving)
    /\ Len(Esac) > 0
    /\ Esac' = EkResult(Esac, arg.minimum_duration)
    /\ pc' = "done"
    /\ UNCHANGED <<arg, streamVars, i, blinkVars, fixVars, vel, acc, t0i, Ssac,
                   rmVars, trVars>>

EkXY == {<<0, 0>>, <<3, 4>>}
EkDT == {1, 2}
EkMinDur == {1, 3}

InitEk ==
    /\ pc = "ek"
    /\ \E n \in 0..MaxLenEK, dt \in EkDT :
         /\ \E p \in [1..n -> EkXY] :
              /\ x = [k \in 1..n |-> p[k][1]]
              /\ y = [k \in 1..n |-> p[k][2]]
         /\ time = [k \in 1..n |-> (k - 1) * dt]
         /\ \E nanLast \in BOOLEAN : moving = MovingMask(x, y, dt, nanLast)
    /\ arg \in [minimum_duration : EkMinDur]
    /\ c = 0 /\ is_moving = FALSE
    /\ smoothed = <<>> /\ ifrom = 0
    /\ signal0 = <<>> /\ signal = <<>> /\ imStarts = <<>> /\ imEnds = <<>>
    /\ i = 0
    /\ vel = <<>> /\ acc = <<>>
    /\ data0 = <<>> /\ data = <<>> /\ passes = 0
    /\ Idle

NextEk == EkOpen \/ EkClose \/ EkSkip \/ EkEmptyFail \/ EkReturn

SpecEk == InitEk /\ [][NextEk]_vars

(***************************************************************************)
(* The result of EK_microsaccade_detection (C19)                           *)
(***************************************************************************)
\* The call in progress is one of EK_microsaccade_detection.
IsEkCall == "minimum_duration" \in DOMAIN arg

\* Sample k (0-based) starts a moving run, and the first sample after k
\* that is not moving (the length of the stream if there is none).
RunStartsAt(k) == Py(moving, k) /\ (k = 0 \/ ~Py(moving, k - 1))
RunEndOf(k) ==
    IF \E e \in (k + 1)..(Len(moving) - 1) : ~Py(moving, e)
    THEN CHOOSE e \in (k + 1)..(Len(moving) - 1) :
             /\ ~Py(moving, e)
             /\ \A j \in (k + 1)..(e - 1) : Py(moving, j)
    ELSE Len(moving)

\* The runs that start at sample k or later, were closed, and last at least
\* mindur, each with its start time, end time, duration and positions.
RECURSIVE ClosedRunsFrom(_, _)
ClosedRunsFrom(k, mindur) ==
    IF k >= Len(moving) THEN <<>>
    ELSE IF RunStartsAt(k) /\ RunEndOf(k) < Len(moving)
              /\ Py(time, RunEndOf(k)) - Py(time, k) >= mindur
         THEN <<  <<R(Py(time, k)), R(Py(time, RunEndOf(k))),
                    R(Py(time, RunEndOf(k)) - Py(time, k)),
                    R(Py(x, k)), R(Py(y, k)),
                    R(Py(x, RunEndOf(k))), R(Py(y, RunEndOf(k)))>>  >>
              \o ClosedRunsFrom(k + 1, mindur)
         ELSE ClosedRunsFrom(k + 1, mindur)

\* C19: EK_microsaccade_detection returns exactly the moving runs that were
\* closed during the scan and whose duration is >= minimum_duration; a run
\* still open at the end of the stream is not returned, and when the scan
\* finds no moving sample the function returns an empty result rather than
\* failing.
C19_EkResult ==
    IsEkCall =>
        /\ pc # "failed"
        /\ pc = "done" => Esac = ClosedRunsFrom(0, arg.minimum_duration)

\* What the function returns, when it returns, is that list of runs
\* (supports C19).
C19_ReturnsClosedRuns ==
    (IsEkCall /\ pc = "done") => Esac = ClosedRunsFrom(0, arg.minimum_duration)

\* The function fails exactly when the scan found no moving sample
\* (supports C19).
C19_FailsIffNoneMoving ==
    (IsEkCall /\ pc # "ek") =>
        (pc = "failed" <=> \A k \in 1..Len(moving) : ~moving[k])

\* The function has returned a stream's runs after dropping one that was
\* shorter than minimum_duration.
C19_ReturnedRuns ==
    /\ pc = "done"
    /\ IsEkCall
    /\ Len(Esac) >= 1
    /\ Len(ClosedRunsFrom(0, 0)) > Len(Esac)

\* The function has failed on a stream of at least five samples, none of
\* them moving.
C19_FailedWithoutMoving ==
    /\ pc = "failed"
    /\ IsEkCall
    /\ Len(moving) >= 5
    /\ \A k \in 1..Len(moving) : ~moving[k]

(***************************************************************************)
(* traces.interpolate_blink(signal, mode, velthresh, maxdur, margin,       *)
(*                          invalid, edfonly=False)                        *)
(* The signal is a NumPy array of floats, with edfonly left at False, so   *)
(* the blinks are found in its velocity profile; or it is a trial dict of  *)
(* edfreader (the call has an edfonly argument in the model), whose blink  *)
(* end-records are used first.  velthresh is not negative.                 *)
(***************************************************************************)
MaxLenPupil == 5      \* longest signal given to interpolate_blink

\* vprof[k] = signal[k+1] - signal[k] (0-based), for k < len(signal) - 1.
Vprof(sig, k) == RSub(Py(sig, k + 1), Py(sig, k))

\* "numpy.where(cond(vprof[a:]))[0]": the indices from a on whose velocity
\* satisfies the condition; l[0] + a is the smallest of them.
FallsFrom(sig, a, th) ==
    {k \in a..(Len(sig) - 2) : RLt(Vprof(sig, k), RSub(R(0), R(th)))}
RisesFrom(sig, a, th) ==
    {k \in a..(Len(sig) - 2) : RGt(Vprof(sig, k), R(th))}
DropsFrom(sig, a) ==
    {k \in a..(Len(sig) - 2) : RLt(Vprof(sig, k), R(0))}
First(S) == CHOOSE k \in S : \A j \in S : k <= j

\* "ifrom = iend": the cursor after a blink found from the cursor a.
IbCursorAfterMutStay(a, iend) == a
IbCursorAfter(a, iend) == iend

\* One pass of the "while True" loop from ifrom = a: what it does ("break",
\* "continue" without a blink, "skip" of a blink longer than maxdur,
\* "append"), the next ifrom, and the blink's start and end after the
\* margin.
IbPass(sig, a, th, margin, maxdur) ==
    LET none == [ifrom |-> a, s |-> 0, e |-> 0]
    IN  IF FallsFrom(sig, a, th) = {} THEN [none EXCEPT !.ifrom = a] @@ [do |-> "break"]
        ELSE LET istart == First(FallsFrom(sig, a, th))
             IN  IF a = istart THEN none @@ [do |-> "break"]
                 ELSE IF RisesFrom(sig, istart, th) = {}
                 THEN [none EXCEPT !.ifrom = istart] @@ [do |-> "continue"]
                 ELSE LET imid == First(RisesFrom(sig, istart, th))
                      IN  IF DropsFrom(sig, imid) = {}
                          THEN [none EXCEPT !.ifrom = imid] @@ [do |-> "continue"]
                          ELSE LET iend == First(DropsFrom(sig, imid))
                                   s == IF istart - margin >= 0
                                        THEN istart - margin ELSE istart
                                   e == IF iend + margin < Len(sig)
                                        THEN iend + margin ELSE iend
                               IN  [ifrom |-> IbCursorAfter(a, iend),
                                    s |-> s, e |-> e,
                                    do |-> IF e - s > maxdur THEN "skip"
                                           ELSE "append"]

\* The interpolation knots pl of the blink from s to e.
IbKnots(sig, s, e) ==
    LET d == e - s
    IN  (IF s - d >= 0 THEN <<s - d>> ELSE <<>>)
        \o <<s, e>>
        \o (IF e + d < Len(sig) THEN <<e + d>> ELSE <<>>)

\* The kind of interpolation.
IbKind(mode, nknots) ==
    IF mode = "auto" THEN (IF nknots >= 4 THEN "cubic" ELSE "linear")
    ELSE mode

\* "y = signal[x]; y[y==invalid] = numpy.mean(signal[signal!=invalid])",
\* then "signal[xint] = intfunc(xint)": invalid knot values are replaced in
\* the copy y only.
IbInterpolated(sig, inv, pl, kind, s, e) ==
    LET isKnot(k) == \E j \in 1..Len(pl) : pl[j] = k
        ys == [k \in 1..Len(sig) |->
                 IF isKnot(k - 1) /\ REq(sig[k], inv)
                 THEN Mean(Valid(sig, inv)) ELSE sig[k]]
        out == Interpolated(ys, pl, kind, s, e)
    IN  [k \in 1..Len(sig) |->
            IF s <= k - 1 /\ k - 1 < e THEN out[k] ELSE sig[k]]

\* "type(signal) == dict": the call was given a trial dict.
IsEdfCall == "edfonly" \in DOMAIN arg

\* "y = signal[x]" succeeds: every knot is an index of the signal.
IbKnotsValid(sig, pl) == \A k \in 1..Len(pl) : pl[k] < Len(sig)

\* The mode is not supported: Exception, before the signal is read.
IbBadMode ==
    /\ pc = "ib"
    /\ ~ModeSupported(arg.mode)
    /\ pc' = "failed"
    /\ UNCHANGED <<arg, detVars, rmVars, trVars>>

\* "signal.ndim != 1": Exception, before the signal is read.
IbBadDim ==
    /\ pc = "ib"
    /\ ModeSupported(arg.mode)
    /\ ~IsEdfCall
    /\ arg.ndim # 1
    /\ pc' = "failed"
    /\ UNCHANGED <<arg, detVars, rmVars, trVars>>

\* The input checks pass: "starts = []", "ends = []", "ifrom = 0".
IbStart ==
    /\ pc = "ib"
    /\ ModeSupported(arg.mode)
    /\ ~IsEdfCall
    /\ arg.ndim = 1
    /\ imStarts' = <<>>
    /\ imEnds' = <<>>
    /\ ifrom' = 0
    /\ pc' = "ib_find"
    /\ UNCHANGED <<arg, detVars, rmVars, signal0, signal, smoothed, c,
                   is_moving, moving>>

\* A pass of the detection loop that finds a blink and appends it.
IbAppend ==
    /\ pc = "ib_find"
    /\ LET r == IbPass(signal, ifrom, arg.velthresh, arg.margin, arg.maxdur)
       IN  /\ r.do = "append"
           /\ imStarts' = Append(imStarts, r.s)
           /\ imEnds' = Append(imEnds, r.e)
           /\ ifrom' = r.ifrom
    /\ UNCHANGED <<pc, arg, detVars, rmVars, signal0, signal, smoothed, c,
                   is_moving, moving>>

\* A pass that appends nothing: no reversal, no ending, or a blink longer
\* than maxdur.
IbContinue ==
    /\ pc = "ib_find"
    /\ LET r == IbPass(signal, ifrom, arg.velthresh, arg.margin, arg.maxdur)
       IN  /\ r.do \in {"continue", "skip"}
           /\ ifrom' = r.ifrom
    /\ UNCHANGED <<pc, arg, detVars, rmVars, signal0, signal, imStarts, imEnds,
                   smoothed, c, is_moving, moving>>

\* The pass that breaks out of the detection loop.
IbBreak ==
    /\ pc = "ib_find"
    /\ IbPass(signal, ifrom, arg.velthresh, arg.margin, arg.maxdur).do = "break"
    /\ i' = 0
    /\ pc' = "ib_loop"
    /\ UNCHANGED <<arg, streamVars, blinkVars, fixVars, sacVars, rmVars, trVars>>

\* One iteration of "for i in range(len(starts))" that interpolates.
IbIter ==
    /\ pc = "ib_loop"
    /\ i < Len(imStarts)
    /\ LET s == Py(imStarts, i)
           e == Py(imEnds, i)
           pl == IbKnots(signal, s, e)
           kind == IbKind(arg.mode, Len(pl))
       IN  /\ IbKnotsValid(signal, pl)
           /\ ~Interp1dRaises(kind, Len(pl))
           /\ signal' = IbInterpolated(signal, arg.invalid, pl, kind, s, e)
    /\ i' = i + 1
    /\ UNCHANGED <<pc, arg, streamVars, blinkVars, fixVars, sacVars, rmVars,
                   signal0, imStarts, imEnds, moreVars>>

\* The iteration in which interp1d raises: the exception leaves the call.
IbIterFail ==
    /\ pc = "ib_loop"
    /\ i < Len(imStarts)
    /\ LET s == Py(imStarts, i)
           e == Py(imEnds, i)
           pl == IbKnots(signal, s, e)
       IN  /\ IbKnotsValid(signal, pl)
           /\ Interp1dRaises(IbKind(arg.mode, Len(pl)), Len(pl))
    /\ pc' = "failed"
    /\ UNCHANGED <<arg, detVars, rmVars, trVars>>

\* "return signal".
IbReturn ==
    /\ pc = "ib_loop"
    /\ i >= Len(imStarts)
    /\ pc' = "done"
    /\ UNCHANGED <<arg, detVars, rmVars, trVars>>

PupilVals == {R(-1), R(1), R(3)}
IbVelThresh == {1, 3}
IbMaxDur == {1, 4}
IbMargin == {0, 1}

InitIb ==
    /\ pc = "ib"
    /\ \E n \in 0..MaxLenPupil : signal0 \in [1..n -> PupilVals]
    /\ signal = signal0
    /\ imStarts = <<>> /\ imEnds = <<>>
    /\ NoMore
    /\ arg \in [mode : ImModeArgs, ndim : ImNdim, velthresh : IbVelThresh,
                 maxdur : IbMaxDur, margin : IbMargin, invalid : {R(-1)}]
    /\ x = <<>> /\ y = <<>> /\ time = <<>> /\ i = 0
    /\ vel = <<>> /\ acc = <<>>
    /\ data0 = <<>> /\ data = <<>> /\ passes = 0
    /\ Idle

NextIb ==
    \/ IbBadMode \/ IbBadDim \/ IbStart
    \/ IbAppend \/ IbContinue \/ IbBreak
    \/ IbIter \/ IbIterFail \/ IbReturn

SpecIb == InitIb /\ [][NextIb]_vars

\* Calls of interpolate_blink, of interpolate_missing and of remove_outliers.
InitInterp == InitIb \/ InitIm \/ InitRo
NextInterp == NextIb \/ NextIm \/ NextRo
SpecInterp == InitInterp /\ [][NextInterp]_vars

(***************************************************************************)
(* Rejected arguments of the interpolating functions (C11)                 *)
(***************************************************************************)
\* The call in progress is one of interpolate_blink.
IsIbCall == "velthresh" \in DOMAIN arg

\* The call was given a mode outside {auto, linear, cubic} or an array that
\* is not one-dimensional.
BadInterpArgs ==
    \/ arg.mode \notin {"auto", "linear", "cubic"}
    \/ arg.ndim # 1

\* C11: interpolate_blink, interpolate_missing and remove_outliers, when
\* called with a mode outside {auto, linear, cubic} or with a signal that is
\* not one-dimensional, fail with an error before any sample of the signal
\* has been modified: such a call is either at its input checks or has
\* failed, never further, and the signal holds its original samples.
C11_BadArgsFail ==
    ((IsIbCall \/ IsImCall \/ IsRoCall) /\ BadInterpArgs) =>
        /\ pc \in {"ib", "im", "ro", "failed"}
        /\ signal = signal0
        /\ imStarts = <<>>
        /\ imEnds = <<>>

\* Such a call never returns, and its only step is the failing one
\* (supports C11).
C11_BadArgsStep ==
    [][((IsIbCall \/ IsImCall \/ IsRoCall) /\ BadInterpArgs) => pc' = "failed"]_vars

\* interpolate_blink has failed on a signal with a blink it would otherwise
\* interpolate, and the signal is as it was.
C11_Witness ==
    /\ pc = "failed"
    /\ IsIbCall
    /\ BadInterpArgs
    /\ IbPass(signal0, 0, arg.velthresh, arg.margin, arg.maxdur).do = "append"
    /\ signal = signal0

\* interpolate_missing and remove_outliers have failed on a signal with
\* invalid samples, respectively with an outlier, and the signal is as it
\* was (supports C11).
C11_WitnessIm ==
    /\ pc = "failed"
    /\ IsImCall
    /\ BadInterpArgs
    /\ ~Clean(signal0, arg.invalid)
    /\ signal = signal0
C11_WitnessRo ==
    /\ pc = "failed"
    /\ IsRoCall
    /\ BadInterpArgs
    /\ ~SdTooLow(signal0, arg.allowp)
    /\ MarkOutliers(signal0, arg.maxdev, arg.invalid) # signal0
    /\ signal = signal0

(***************************************************************************)
(* The samples behind a fixation end-record (C21)                          *)
(***************************************************************************)
\* The call in progress is one of fixation_detection.
IsFixCall == "maxdist" \in DOMAIN arg /\ "mindur" \in DOMAIN arg

\* Sample b lies within maxdist (Euclidean, inclusive) of sample a.
WithinMaxdist(a, b) ==
    LET dx == Py(x, a) - Py(x, b)
        dy == Py(y, a) - Py(y, b)
    IN  arg.maxdist >= 0 /\ dx * dx + dy * dy <= arg.maxdist * arg.maxdist

\* Record rec is the fixation of the samples s..e-1, closed by sample e.
IsFixationOf(rec, s, e) ==
    /\ rec = <<Py(time, s), Py(time, e - 1), Py(time, e - 1) - Py(time, s),
               Py(x, s), Py(y, s)>>
    /\ WithinMaxdist(s - 1, s)
    /\ \A j \in s..(e - 1) : WithinMaxdist(s, j)
    /\ ~WithinMaxdist(s, e)

C30_FixRecordsOrdered ==
    IsFixCall =>
        \A k \in 1..(Len(Efix) - 1) :
            /\ Efix[k][2] <= Efix[k + 1][1]
            /\ \E s1 \in 1..(Len(x) - 2) : \E e1 \in (s1 + 1)..(Len(x) - 1) :
               \E s2 \in (e1 + 1)..(Len(x) - 2) : \E e2 \in (s2 + 1)..(Len(x) - 1) :
                  /\ IsFixationOf(Efix[k], s1, e1)
                  /\ IsFixationOf(Efix[k + 1], s2, e2)

\* fixation_detection has returned two end-records, the second of a
\* fixation that starts at the sample right after the one that closed the
\* first, on a stream whose timestamps all differ.
C30_Witness ==
    /\ pc = "done"
    /\ IsFixCall
    /\ Len(Efix) = 2
    /\ \A k \in 1..(Len(time) - 1) : time[k] < time[k + 1]
    /\ \E e1 \in 2..(Len(x) - 3) :
          /\ Efix[1][2] = Py(time, e1 - 1)
          /\ Efix[2][1] = Py(time, e1 + 1)

(***************************************************************************)
(* The lists returned by saccade_detection (C22)                           *)
(***************************************************************************)
\* The call in progress is one of saccade_detection.
IsSacCall == "maxvel" \in DOMAIN arg

\* C22: on return from saccade_detection the starts list and the end-record
\* list have the same length and the k-th start equals the start time of
\* the k-th end-record: a candidate shorter than minlen, and a trailing
\* candidate for which a start was found but no end, leave no entry in
\* either list.
C22_SacListsAligned ==
    (IsSacCall /\ pc = "done") =>
        /\ Len(Ssac) = Len(Esac)
        /\ \A k \in 1..Len(Ssac) : Ssac[k][1] = Esac[k][1]

\* What does hold on return (supports C22): the k-th end-record starts at
\* the k-th start, and the starts list has at most one entry more.
C22_AlignedUpToLast ==
    (IsSacCall /\ pc = "done") =>
        /\ Len(Ssac) \in {Len(Esac), Len(Esac) + 1}
        /\ \A k \in 1..Len(Esac) : Ssac[k][1] = Esac[k][1]

\* saccade_detection has returned a start without end-record after a
\* saccade that it stored.
C22_TrailingStart ==
    /\ pc = "done"
    /\ IsSacCall
    /\ Len(Esac) >= 1
    /\ Len(Ssac) = Len(Esac) + 1

(***************************************************************************)
(* The end sample of a saccade (C23)                                       *)
(***************************************************************************)
\* The indices after the start a at which the inter-sample velocity is
\* below maxvel and the acceleration (the change of velocity into that
\* index) below maxacc.
CalmAfter(a) ==
    {j \in (a + 1)..(Len(time) - 2) :
        /\ RLt(Py(vel, j), R(arg.maxvel))
        /\ RLt(Py(acc, j - 1), R(arg.maxacc))}

\* The k-th end-record starts at sample a and ends at the first calm index
\* after a plus skip, clamped to the last sample index.
EndsAtFirstCalm(k, skip) ==
    \E a \in 0..(Len(time) - 1) :
        /\ Py(time, a) = Esac[k][1]
        /\ CalmAfter(a) # {}
        /\ Esac[k][2] = Py(time, Min(SetMin(CalmAfter(a)) + skip, Len(time) - 1))

\* C23: for each saccade found by saccade_detection with start sample index
\* t1i, the end sample index is the first index after the start at which
\* the inter-sample velocity is below maxvel and the acceleration is below
\* maxacc (no further samples are skipped beyond that index), clamped to the
\* last sample index when it would overrun.
C23_EndIsFirstCalm ==
    IsSacCall => \A k \in 1..Len(Esac) : EndsAtFirstCalm(k, 0)

\* What does hold (supports C23): the end sample lies two samples beyond
\* that index, clamped to the last sample index.
C23_EndIsTwoBeyond ==
    IsSacCall => \A k \in 1..Len(Esac) : EndsAtFirstCalm(k, 2)

\* saccade_detection has returned a saccade whose end sample is two beyond
\* the first calm index, without clamping.
C23_EndBeyondCalm ==
    /\ pc = "done"
    /\ IsSacCall
    /\ \E k \in 1..Len(Esac) : \E a \in 0..(Len(time) - 1) :
          /\ Py(time, a) = Esac[k][1]
          /\ CalmAfter(a) # {}
          /\ SetMin(CalmAfter(a)) + 2 < Len(time) - 1
          /\ Esac[k][2] = Py(time, SetMin(CalmAfter(a)) + 2)

(***************************************************************************)
(* The outlier test of hampel (C24)                                        *)
(***************************************************************************)
\* The call in progress is one of hampel, with any focus.
IsAnyHampelCall == "focus" \in DOMAIN arg /\ "T" \in DOMAIN arg

\* Sample k (0-based) of sig falls outside the range from -T*S0 to +T*S0 of
\* its window.
OutsideRange(sig, k) ==
    LET window == HampelWindow(sig, arg.focus, arg.winlen, k)
        lim == RMul(arg.T, S0(window, Median(window)))
    IN  RGt(Py(sig, k), lim) \/ RLt(Py(sig, k), RSub(R(0), lim))

\* Sample k (0-based) of sig differs from T*S0 of its window.
DiffersFromLimit(sig, k) ==
    LET window == HampelWindow(sig, arg.focus, arg.winlen, k)
        lim == RMul(arg.T, S0(window, Median(window)))
    IN  RGt(Py(sig, k), lim) \/ RLt(Py(sig, k), lim)

\* The signal after sample k was replaced by the median of its window.
WithMedianAt(sig, k) ==
    [sig EXCEPT ![k + 1] = Median(HampelWindow(sig, arg.focus, arg.winlen, k))]

\* C24: for every sample index visited by hampel (any focus mode), the
\* sample is replaced by the window median if and only if it falls outside
\* the range from -T*S0 to +T*S0, where S0 = 1.4826 times the median
\* absolute deviation of the window from its median; a sample inside that
\* range keeps its value.
C24_ReplacedIffOutside ==
    [][(IsAnyHampelCall /\ pc = "hampel" /\ i' = i + 1) =>
          signal' = IF OutsideRange(signal, i) THEN WithMedianAt(signal, i)
                    ELSE signal]_vars

\* What does hold (supports C24): the sample is replaced by the window
\* median if and only if it differs from +T*S0.
C24_ReplacedUnlessAtLimit ==
    [][(IsAnyHampelCall /\ pc = "hampel" /\ i' = i + 1) =>
          signal' = IF DiffersFromLimit(signal, i) THEN WithMedianAt(signal, i)
                    ELSE signal]_vars

\* hampel has replaced the first sample it visited with a different value,
\* although the sample was inside the range.
C24_InsideReplaced ==
    /\ IsAnyHampelCall
    /\ pc = "hampel"
    /\ i = HampelStart(arg.focus, arg.winlen, Len(signal0)) + 1
    /\ i <= Len(signal0)
    /\ ~OutsideRange(signal0, i - 1)
    /\ IsFinite(S0(HampelWindow(signal0, arg.focus, arg.winlen, i - 1),
                   Median(HampelWindow(signal0, arg.focus, arg.winlen, i - 1))))
    /\ Py(signal, i - 1) # Py(signal0, i - 1)

(***************************************************************************)
(* The position of the smoothing window (C25)                              *)
(***************************************************************************)
\* The kernel-weighted average of the winlen mirror-padded samples at the
\* input positions lo .. lo + winlen - 1 (position p of the input is sample
\* p + winlen - 1 of the padded signal).
WindowAverage(sig, winlen, window, lo) ==
    LET w == Kernel(window, winlen)
        s == Padded(sig, winlen)
    IN  RDiv(RSum([m \in 1..winlen |-> RMul(w[m], Py(s, lo + m - 1 + winlen - 1))]),
             RSum(w))

\* Every output sample j is the average of the window that starts at input
\* position j - back.
WindowStartsBack(back) ==
    \A j \in 0..(Len(smoothed) - 1) :
        Py(smoothed, j) = WindowAverage(signal0, arg.winlen, arg.window, j - back)

\* A call of smooth with lencorrect=True and winlen >= 3 that has returned.
SmoothedCorrected ==
    IsSmCall /\ pc = "done" /\ arg.winlen >= 3 /\ arg.lencorrect

\* C25: with lencorrect=True and any winlen >= 3 (odd or even), output
\* sample j of smooth is the kernel-weighted average of the winlen
\* mirror-padded samples centred on input sample j: for odd winlen the
\* window covers input positions j-(winlen-1)/2 .. j+(winlen-1)/2 (for even
\* winlen, one of the two windows of winlen samples around j), so the
\* smoothed trace is not shifted relative to the input.
C25_WindowCentred ==
    SmoothedCorrected =>
        IF arg.winlen % 2 = 1
        THEN WindowStartsBack((arg.winlen - 1) \div 2)
        ELSE WindowStartsBack(arg.winlen \div 2)
             \/ WindowStartsBack(arg.winlen \div 2 - 1)

\* What does hold (supports C25): the window of output sample j starts at
\* input position j - winlen + winlen/2, which for odd winlen is
\* j-(winlen-1)/2 - 1: the window is centred on input sample j - 1.
C25_WindowOneBack ==
    SmoothedCorrected => WindowStartsBack(arg.winlen - arg.winlen \div 2)

\* smooth has returned, for an odd winlen, a trace that is not the centred
\* average of its input.
C25_Shifted ==
    /\ SmoothedCorrected
    /\ arg.winlen = 3
    /\ arg.window = "flat"
    /\ Len(signal0) >= 4
    /\ ~WindowStartsBack(1)
    /\ WindowStartsBack(2)

(***************************************************************************)
(* The intervals found by the velocity scan of interpolate_blink (C26)     *)
(***************************************************************************)
\* The velocity samples from index a on that are <= 0.
ClosesFrom(sig, a) ==
    {k \in a..(Len(sig) - 2) : ~RGt(Vprof(sig, k), R(0))}

\* The intervals of the successive onset-reversal-close sequences from the
\* cursor on: onset the first velocity sample at or after the cursor below
\* -velthresh, reversal the first at or after the onset above +velthresh,
\* close the first at or after the reversal that is <= 0; each interval
\* extended by the margin where it fits and dropped when longer than
\* maxdur; the next cursor is the close.
RECURSIVE SequencesFrom(_, _)
SequencesFrom(sig, cursor) ==
    IF FallsFrom(sig, cursor, arg.velthresh) = {} THEN <<>>
    ELSE LET onset == First(FallsFrom(sig, cursor, arg.velthresh))
         IN  IF RisesFrom(sig, onset, arg.velthresh) = {} THEN <<>>
             ELSE LET reversal == First(RisesFrom(sig, onset, arg.velthresh))
                  IN  IF ClosesFrom(sig, reversal) = {} THEN <<>>
                      ELSE LET close == First(ClosesFrom(sig, reversal))
                               s == IF onset - arg.margin >= 0
                                    THEN onset - arg.margin ELSE onset
                               e == IF close + arg.margin < Len(sig)
                                    THEN close + arg.margin ELSE close
                           IN  (IF e - s <= arg.maxdur THEN << <<s, e>> >> ELSE <<>>)
                               \o SequencesFrom(sig, close)

\* The intervals that the scan has recorded.
Recorded == [k \in 1..Len(imStarts) |-> <<imStarts[k], imEnds[k]>>]

\* C26: in interpolate_blink the velocity scan records, subject to the
\* margin extension and the maxdur filter, an interval for every successive
\* onset-reversal-close sequence in the signal; no such sequence is skipped,
\* including one whose onset lies exactly at the cursor (velocity index 0 on
\* the first pass, or the close index of the previous blink).
C26_EverySequenceRecorded ==
    (IsIbCall /\ pc \in {"ib_loop", "done", "failed"} /\ ~BadInterpArgs) =>
        Recorded = SequencesFrom(signal0, 0)

\* What the scan records is never more than those sequences (supports C26).
C26_RecordedAreSequences ==
    (IsIbCall /\ pc \in {"ib_loop", "done", "failed"} /\ ~BadInterpArgs) =>
        Len(Recorded) <= Len(SequencesFrom(signal0, 0))

\* The scan has ended without an interval for a signal that starts with an
\* onset, a reversal and a close with negative velocity.
C26_OnsetAtCursorSkipped ==
    /\ IsIbCall
    /\ pc = "ib_loop"
    /\ Len(signal0) >= 4
    /\ RLt(Vprof(signal0, 0), RSub(R(0), R(arg.velthresh)))
    /\ RGt(Vprof(signal0, 1), R(arg.velthresh))
    /\ RLt(Vprof(signal0, 2), R(0))
    /\ arg.maxdur >= 2 + arg.margin
    /\ Len(SequencesFrom(signal0, 0)) >= 1
    /\ Recorded = <<>>

(***************************************************************************)
(* Termination of the velocity scan of interpolate_blink (C27)             *)
(***************************************************************************)
\* Calls of interpolate_blink on signals over two pupil sizes, with
\* velthresh 0 or 1, and the calls that the input checks reject.
IbLiveVals == {R(1), R(3)}
IbLiveVelThresh == {0, 1}

InitIbLive ==
    /\ pc = "ib"
    /\ \E n \in 0..MaxLenPupil : signal0 \in [1..n -> IbLiveVals]
    /\ signal = signal0
    /\ imStarts = <<>> /\ imEnds = <<>>
    /\ NoMore
    /\ \/ arg \in [mode : {"linear", "cubic"}, ndim : {1},
                   velthresh : IbLiveVelThresh, maxdur : {2}, margin : {0},
                   invalid : {R(-1)}]
       \/ /\ arg \in [mode : {"nearest"}, ndim : {1}, velthresh : {1},
                      maxdur : {2}, margin : {0}, invalid : {R(-1)}]
                \cup [mode : {"linear"}, ndim : {2}, velthresh : {1},
                      maxdur : {2}, margin : {0}, invalid : {R(-1)}]
          /\ signal0 = <<>>
    /\ x = <<>> /\ y = <<>> /\ time = <<>> /\ i = 0
    /\ vel = <<>> /\ acc = <<>>
    /\ data0 = <<>> /\ data = <<>> /\ passes = 0
    /\ Idle

SpecIbLive == InitIbLive /\ [][NextIb]_vars /\ WF_vars(NextIb)

\* C27: for every signal and every velthresh >= 0 the velocity scan loop of
\* interpolate_blink terminates: on every iteration that does not break the
\* cursor ifrom moves to a strictly larger index, it stays below the length
\* of the signal, and the scan is left.
C27_ScanTerminates ==
    /\ [][(pc = "ib_find" /\ pc' = "ib_find") => ifrom' > ifrom]_vars
    /\ [](pc = "ib_find" => ifrom <= Max(Len(signal) - 1, 0))
    /\ <>(pc \in {"ib_loop", "done", "failed"})

\* The two safety parts of C27 on all calls of SpecIb (supports C27).
C27_CursorAdvances ==
    /\ [][(pc = "ib_find" /\ pc' = "ib_find") => ifrom' > ifrom]_vars
    /\ [](pc = "ib_find" => ifrom <= Max(Len(signal) - 1, 0))

\* The scan has ended, with velthresh 0, after recording a blink and moving
\* the cursor to its close.
C27_Witness ==
    /\ pc = "ib_loop"
    /\ IsIbCall
    /\ arg.velthresh = 0
    /\ Len(imStarts) >= 1
    /\ ifrom = Py(imEnds, -1)
    /\ ifrom > 0

(***************************************************************************)
(* traces.interpolate_blink with a trial dict of edfreader                 *)
(* time is the dict's 'edftime' array, signal its 'size' array (of the     *)
(* same length), Eblk its list signal['events']['Eblk'] of blink           *)
(* end-records [starttime, endtime, duration].  A blink starts before it   *)
(* ends, and does not end at or before the first sample of the trial.      *)
(***************************************************************************)
MaxLenTrial == 4      \* longest trial given to interpolate_blink

\* "numpy.where(signal['edftime']==t)[0]", as a set of indices.
EdfWhere(t) == {k \in 0..(Len(time) - 1) : Py(time, k) = t}

\* The sample index of a blink's start time: 0 if the time is not in the
\* trial.
EdfStartIndex(t) == IF EdfWhere(t) = {} THEN 0 ELSE First(EdfWhere(t))

\* The sample index of a blink's end time: len(signal['edftime']) if the
\* time is not in the trial.
EdfEndIndexMutLast(t) ==
    IF EdfWhere(t) = {} THEN Len(time) - 1 ELSE First(EdfWhere(t))
EdfEndIndex(t) == IF EdfWhere(t) = {} THEN Len(time) ELSE First(EdfWhere(t))

\* The mode is supported and the signal a dict: the dimension test is
\* skipped; "starts = []", "ends = []".
IbEdfStart ==
    /\ pc = "ib"
    /\ ModeSupported(arg.mode)
    /\ IsEdfCall
    /\ imStarts' = <<>>
    /\ imEnds' = <<>>
    /\ i' = 0
    /\ pc' = "ib_edf"
    /\ UNCHANGED <<arg, streamVars, blinkVars, fixVars, sacVars, rmVars,
                   signal0, signal, moreVars>>

\* One iteration of "for st, et, dur in signal['events']['Eblk']".
IbEdfEvent ==
    /\ pc = "ib_edf"
    /\ i < Len(Eblk)
    /\ LET st0 == EdfStartIndex(Py(Eblk, i)[1])
           et0 == EdfEndIndex(Py(Eblk, i)[2])
           st == IF st0 - arg.margin >= 0 THEN st0 - arg.margin ELSE st0
           et == IF et0 + arg.margin < Len(signal) THEN et0 + arg.margin ELSE et0
       IN  IF et - st <= arg.maxdur
           THEN /\ imStarts' = Append(imStarts, st)
                /\ imEnds' = Append(imEnds, et)
           ELSE UNCHANGED <<imStarts, imEnds>>
    /\ i' = i + 1
    /\ UNCHANGED <<pc, arg, streamVars, blinkVars, fixVars, sacVars, rmVars,
                   signal0, signal, moreVars>>

\* The events are done: "signal = signal['size']", then the velocity scan
\* unless edfonly.
IbEdfDone ==
    /\ pc = "ib_edf"
    /\ i >= Len(Eblk)
    /\ ifrom' = 0
    /\ i' = 0
    /\ pc' = IF arg.edfonly THEN "ib_loop" ELSE "ib_find"
    /\ UNCHANGED <<arg, streamVars, blinkVars, fixVars, sacVars, rmVars,
                   signal0, signal, imStarts, imEnds, smoothed, c, is_moving,
                   moving>>

\* The iteration in which "y = signal[x]" raises IndexError: a knot is not
\* an index of the signal.
IbIterIndexError ==
    /\ pc = "ib_loop"
    /\ i < Len(imStarts)
    /\ ~IbKnotsValid(signal, IbKnots(signal, Py(imStarts, i), Py(imEnds, i)))
    /\ pc' = "failed"
    /\ UNCHANGED <<arg, detVars, rmVars, trVars>>

TrialVals == {R(1), R(3)}
\* The blinks of a trial of n samples taken at the times 0 .. n-1: from a
\* start time of -1 (before the trial) on, to an end time of n (after it).
TrialBlinks(n) ==
    {<<p[1], p[2], p[2] - p[1]>> :
        p \in {q \in ((-1)..(n - 1)) \X (1..n) : q[1] < q[2]}}

InitIbEdf ==
    /\ pc = "ib"
    /\ \E n \in 1..MaxLenTrial :
         /\ signal0 \in [1..n -> TrialVals]
         /\ time = [k \in 1..n |-> k - 1]
         /\ Eblk \in {<<>>} \cup {<<ev>> : ev \in TrialBlinks(n)}
    /\ signal = signal0
    /\ imStarts = <<>> /\ imEnds = <<>>
    /\ NoMore
    /\ arg \in [mode : {"auto", "cubic", "nearest"}, ndim : {1}, velthresh : {1},
                 maxdur : {2, 5}, margin : IbMargin, invalid : {R(-1)},
                 edfonly : BOOLEAN]
    /\ x = <<>> /\ y = <<>> /\ i = 0
    /\ vel = <<>> /\ acc = <<>>
    /\ data0 = <<>> /\ data = <<>> /\ passes = 0
    /\ Sblk = <<>>
    /\ si = 0 /\ fixstart = FALSE /\ Sfix = <<>> /\ Efix = <<>>
    /\ t0i = 0 /\ Ssac = <<>> /\ Esac = <<>>

\* Calls of interpolate_blink with an array and with a trial dict.
InitIbAny == InitIb \/ InitIbEdf
NextIbAny == NextIb \/ IbEdfStart \/ IbEdfEvent \/ IbEdfDone \/ IbIterIndexError
SpecIbAny == InitIbAny /\ [][NextIbAny]_vars

(***************************************************************************)
(* The blink intervals of interpolate_blink (C28)                          *)
(***************************************************************************)
\* The interval from s to e lies in the signal, is not longer than maxdur,
\* and each of its interpolation knots (s - d, s, e, e + d where they are
\* used, d = e - s) is an index of the signal.
IntervalValid(s, e) ==
    /\ 0 <= s /\ s < e /\ e <= Len(signal) - 1
    /\ e - s <= arg.maxdur
    /\ \A p \in {s, e} \cup {q \in {s - (e - s)} : q >= 0}
                       \cup {q \in {e + (e - s)} : q < Len(signal)} :
          0 <= p /\ p <= Len(signal) - 1

\* C28: every blink interval (start, end) that interpolate_blink records,
\* whether derived from the trial's blink end-records or from the velocity
\* scan, satisfies 0 <= start < end <= len(signal) - 1 and
\* end - start <= maxdur after the margin extension; a recorded blink whose
\* end time does not occur in the trial's time array is mapped to the last
\* sample index, so every interpolation knot is a valid sample index.
C28_IntervalsValid ==
    IsIbCall =>
        \A k \in 1..Len(imStarts) : IntervalValid(imStarts[k], imEnds[k])

\* The same for the intervals of the velocity scan of an array (supports
\* C28).
C28_ScanIntervalsValid ==
    (IsIbCall /\ ~IsEdfCall) =>
        \A k \in 1..Len(imStarts) : IntervalValid(imStarts[k], imEnds[k])

\* The same for the blinks of a trial that end within the trial (supports
\* C28).
C28_BlinksInTrialValid ==
    (IsIbCall /\ IsEdfCall /\ \A k \in 1..Len(Eblk) : Eblk[k][2] <= Py(time, -1)) =>
        \A k \in 1..Len(imStarts) : IntervalValid(imStarts[k], imEnds[k])

\* interpolate_blink has failed on a trial whose blink ends after the last
\* sample: the interval recorded for it ends at len(signal).
C28_EndPastLastSample ==
    /\ pc = "failed"
    /\ IsEdfCall
    /\ ModeSupported(arg.mode)
    /\ Len(Eblk) = 1
    /\ Eblk[1][1] \in 0..(Len(time) - 1)
    /\ Eblk[1][2] > Py(time, -1)
    /\ Len(imEnds) >= 1
    /\ imEnds[1] = Len(signal)
    /\ signal = signal0

(***************************************************************************)
(* The values that interpolate_missing writes (C29)                        *)
(***************************************************************************)
\* The signal has a valid sample and the invalid code lies outside the
\* range of its valid samples.
CodeOutsideValidRange(sig, inv) ==
    /\ \E k \in 1..Len(sig) : ~REq(sig[k], inv)
    /\ \/ \A k \in 1..Len(sig) : REq(sig[k], inv) \/ RGt(sig[k], inv)
       \/ \A k \in 1..Len(sig) : REq(sig[k], inv) \/ RLt(sig[k], inv)

\* Value v lies between the minimum and the maximum of the valid samples of
\* sig.
InValidRange(sig, inv, v) ==
    /\ \E k \in 1..Len(sig) : ~REq(sig[k], inv) /\ ~RGt(sig[k], v)
    /\ \E k \in 1..Len(sig) : ~REq(sig[k], inv) /\ ~RLt(sig[k], v)

\* A call of interpolate_missing with mode='linear' that
\* has returned.
LinearImReturned ==
    /\ IsImCall
    /\ pc = "done"
    /\ arg.mode = "linear"
    /\ arg.ndim = 1
    /\ CodeOutsideValidRange(signal0, arg.invalid)

\* C29: for every signal with at least one valid sample, an invalid code
\* outside the range of the valid samples, mode='linear', every margin >= 0
\* and every spacing of invalid runs, interpolate_missing returns a signal
\* in which no sample equals the invalid code and every sample lies between
\* the minimum and the maximum of the originally valid samples.
C29_InterpolatedInRange ==
    LinearImReturned =>
        \A k \in 1..Len(signal) :
            /\ ~REq(signal[k], arg.invalid)
            /\ InValidRange(signal0, arg.invalid, signal[k])

\* The same with margin=0, where every knot is a valid sample (supports
\* C29).
C29_InRangeWithoutMargin ==
    (LinearImReturned /\ arg.margin = 0) =>
        \A k \in 1..Len(signal) :
            /\ ~REq(signal[k], arg.invalid)
            /\ InValidRange(signal0, arg.invalid, signal[k])

\* interpolate_missing has returned a sample below every valid sample of
\* its input.
C29_BelowValidRange ==
    /\ LinearImReturned
    /\ arg.margin > 0
    /\ \E k \in 1..Len(signal) :
          /\ IsFinite(signal[k])
          /\ ~REq(signal[k], arg.invalid)
          /\ ~InValidRange(signal0, arg.invalid, signal[k])

====
